---- MODULE Spec2Model ----
(***************************************************************************)
(* vcluster-argocd-enroller: the kopf operator of                          *)
(* src/src/vcluster_argocd_enroller/operator.py as a state machine.        *)
(*                                                                         *)
(* Python strings are TLA+ strings (Len, SubSeq and \o act on them);       *)
(* the Kubernetes secret store is a function from <<namespace, name>> to   *)
(* the stored object; every handler invocation is a thread whose steps are *)
(* its store calls.                                                        *)
(***************************************************************************)
EXTENDS Integers, Sequences, FiniteSets, TLC

(***************************************************************************)
(* Strings and the codecs: base64 (operator.py 53-60) and json.dumps of    *)
(* a str, over printable ASCII.                                            *)
(***************************************************************************)

\* The printable ASCII characters but the backquote (code 96), which a TLA+
\* string cannot hold: codes 32 (space) to 95, and codes 97 to 126 (~).
AsciiLow == " !\"#$%&'()*+,-./0123456789:;<=>?@ABCDEFGHIJKLMNOPQRSTUVWXYZ[\\]^_"

AsciiHigh == "abcdefghijklmnopqrstuvwxyz{|}~"

\* The base64 alphabet of RFC 4648, value 0 to 63 in order.
B64Alphabet == "ABCDEFGHIJKLMNOPQRSTUVWXYZabcdefghijklmnopqrstuvwxyz0123456789+/"

CharAt(s, i) == SubSeq(s, i, i)

IndexOf(c, alphabet) == CHOOSE i \in 1..Len(alphabet) : CharAt(alphabet, i) = c

\* The byte of each printable ASCII character, as a table.
ByteOf ==
    [c \in {CharAt(AsciiLow, i) : i \in 1..Len(AsciiLow)}
            \cup {CharAt(AsciiHigh, i) : i \in 1..Len(AsciiHigh)} |->
        IF \E i \in 1..Len(AsciiLow) : CharAt(AsciiLow, i) = c
        THEN 31 + IndexOf(c, AsciiLow)
        ELSE 96 + IndexOf(c, AsciiHigh)]

\* s.encode("utf-8") of one printable ASCII character: its byte.
Ord(c) == ByteOf[c]

\* bytes.decode("utf-8") of one byte in 32..126 other than 96.
Chr(b) == IF b <= 95 THEN CharAt(AsciiLow, b - 31) ELSE CharAt(AsciiHigh, b - 96)

B64Char(v) == CharAt(B64Alphabet, v + 1)

\* The value of each character of the base64 alphabet, as a table.
B64Index == [c \in {CharAt(B64Alphabet, i) : i \in 1..Len(B64Alphabet)} |-> IndexOf(c, B64Alphabet) - 1]

B64Val(c) == B64Index[c]

StartsWith(s, prefix) ==
    /\ Len(s) >= Len(prefix)
    /\ SubSeq(s, 1, Len(prefix)) = prefix

RECURSIVE encode_unpadded(_)
\* An encoding that leaves the bytes after the last whole group of three out.
encode_unpadded(s) ==
    IF Len(s) < 3 THEN ""
    ELSE
        LET b1 == Ord(CharAt(s, 1))
            b2 == Ord(CharAt(s, 2))
            b3 == Ord(CharAt(s, 3))
        IN  B64Char(b1 \div 4) \o B64Char((b1 % 4) * 16 + b2 \div 16)
               \o B64Char((b2 % 16) * 4 + b3 \div 64) \o B64Char(b3 % 64)
               \o encode_unpadded(SubSeq(s, 4, Len(s)))

RECURSIVE encode(_)
\* base64.b64encode(s.encode("utf-8")).decode("utf-8")
encode(s) ==
    IF Len(s) = 0 THEN ""
    ELSE IF Len(s) = 1 THEN
        LET b1 == Ord(CharAt(s, 1))
        IN  B64Char(b1 \div 4) \o B64Char((b1 % 4) * 16) \o "=="
    ELSE IF Len(s) = 2 THEN
        LET b1 == Ord(CharAt(s, 1))
            b2 == Ord(CharAt(s, 2))
        IN  B64Char(b1 \div 4) \o B64Char((b1 % 4) * 16 + b2 \div 16)
               \o B64Char((b2 % 16) * 4) \o "="
    ELSE
        LET b1 == Ord(CharAt(s, 1))
            b2 == Ord(CharAt(s, 2))
            b3 == Ord(CharAt(s, 3))
        IN  B64Char(b1 \div 4) \o B64Char((b1 % 4) * 16 + b2 \div 16)
               \o B64Char((b2 % 16) * 4 + b3 \div 64) \o B64Char(b3 % 64)
               \o encode(SubSeq(s, 4, Len(s)))

RECURSIVE decode(_)
\* base64.b64decode(d).decode("utf-8"), for d a padded base64 text
decode(d) ==
    IF Len(d) < 4 THEN ""
    ELSE
        LET v1 == B64Val(CharAt(d, 1))
            v2 == B64Val(CharAt(d, 2))
            rest == decode(SubSeq(d, 5, Len(d)))
        IN  IF CharAt(d, 3) = "=" THEN
                Chr(v1 * 4 + v2 \div 16)
            ELSE IF CharAt(d, 4) = "=" THEN
                LET v3 == B64Val(CharAt(d, 3))
                IN  Chr(v1 * 4 + v2 \div 16) \o Chr((v2 % 16) * 16 + v3 \div 4)
            ELSE
                LET v3 == B64Val(CharAt(d, 3))
                    v4 == B64Val(CharAt(d, 4))
                IN  Chr(v1 * 4 + v2 \div 16) \o Chr((v2 % 16) * 16 + v3 \div 4)
                       \o Chr((v3 % 4) * 64 + v4) \o rest

RECURSIVE JsonEscape(_)
\* The body of a JSON string as json.dumps writes it: " and \ are escaped.
JsonEscape(s) ==
    IF Len(s) = 0 THEN ""
    ELSE
        LET c == CharAt(s, 1)
            e == IF c = "\"" THEN "\\\"" ELSE IF c = "\\" THEN "\\\\" ELSE c
        IN  e \o JsonEscape(SubSeq(s, 2, Len(s)))

\* json.dumps(s) of a str
JsonString(s) == "\"" \o JsonEscape(s) \o "\""

(***************************************************************************)
(* Bounds and the small input sets.                                        *)
(***************************************************************************)

\* Writes and removals of secrets by parties other than the operator.
MaxToolingSteps == 1

\* The executor threads kopf runs the synchronous handlers in.
Threads == {"t1", "t2"}

\* The watched StatefulSets: <<name, namespace>>.  The operator watches every
\* namespace it is given, the one of the registrations included: "argocd" is
\* the target namespace when the environment sets no other.
Workloads == {<<"x", "ns1">>, <<"vcluster-x", "ns1">>, <<"y", "argocd">>}

\* Values of the environment variable ARGOCD_NAMESPACE: unset, or set.
EnvArgocdNamespace == {"unset", "gitops"}

\* HTTP statuses of a store call that fails for a reason of the store's own.
FaultStatuses == {403, 500, 503}

CredentialFields == {"certificate-authority", "client-certificate", "client-key"}

\* The vCluster tooling's credential values (base64 texts), old and rotated.
CredentialValues == {"Q0Ex", "Q0Ey"}

(***************************************************************************)
(* Python values.                                                          *)
(***************************************************************************)

\* A V1Secret as the store holds it; hasData = FALSE is data = None.
V1Secret(labels, hasData, data) == [labels |-> labels, hasData |-> hasData, data |-> data]

\* The value of a local that is not assigned yet.
NoSecret == V1Secret(<<>>, FALSE, <<>>)

NoBody ==
    [apiVersion |-> "", kind |-> "",
     metadata |-> [name |-> "", namespace |-> "", labels |-> <<>>],
     data |-> <<>>]

\* The credential secrets the tooling may write: every subset of the three
\* fields (the full one included) with one value, an extra field, data = None.
CredentialSecrets ==
    {V1Secret(<<>>, TRUE, [f \in CredentialFields |-> v]) : v \in CredentialValues}
    \cup {V1Secret(<<>>, TRUE, [f \in S |-> "Q0Ex"]) : S \in SUBSET CredentialFields}
    \cup {V1Secret(<<>>, TRUE, [f \in {"some-field"} |-> "value"])}
    \cup {V1Secret(<<>>, FALSE, <<>>)}

\* kubernetes.client.rest.ApiException(status): str(e) starts "(status)\nReason: ".
ApiException(status) ==
    [class |-> "ApiException", status |-> status,
     text |-> "(" \o ToString(status) \o ")\nReason: "]

\* A failure of the HTTP layer that is no ApiException (urllib3 MaxRetryError).
ConnectionError == [class |-> "MaxRetryError", status |-> 0, text |-> "Max retries exceeded"]

NoException == [class |-> "none", status |-> 0, text |-> ""]

\* What a store call may answer besides its regular answer.
Faults == {ApiException(st) : st \in FaultStatuses} \cup {ConnectionError}

\* How a handler invocation ends.
Returned(value, message) == [kind |-> "return", value |-> value, message |-> message, delay |-> 0]

Raised(class, message, delay) == [kind |-> "raise", value |-> class, message |-> message, delay |-> delay]

NoResult == [kind |-> "none", value |-> "", message |-> "", delay |-> 0]

(***************************************************************************)
(* The pure functions of operator.py.                                      *)
(***************************************************************************)

\* os.getenv("ARGOCD_NAMESPACE", "argocd")
ArgocdNamespaceOf(env) == IF env = "unset" THEN "argocd" ELSE env

\* Where sub occurs in s, leftmost first.
Occurrences(s, sub) == {i \in 1..(Len(s) - Len(sub) + 1) : SubSeq(s, i, i + Len(sub) - 1) = sub}

\* s.replace(old, new, 1): the leftmost occurrence of old replaced, if there is one
ReplaceFirst(s, old, new) ==
    IF Occurrences(s, old) = {} THEN s
    ELSE LET i == CHOOSE j \in Occurrences(s, old) : \A k \in Occurrences(s, old) : j <= k
         IN  SubSeq(s, 1, i - 1) \o new \o SubSeq(s, i + Len(old), Len(s))

RECURSIVE vc_name_replaces_every(_)
\* A vc_name that removes the prefix as often as the name starts with it.
vc_name_replaces_every(statefulset_name) ==
    IF StartsWith(statefulset_name, "vcluster-")
    THEN vc_name_replaces_every(ReplaceFirst(statefulset_name, "vcluster-", ""))
    ELSE statefulset_name

\* operator.py 41-45
vc_name(statefulset_name) ==
    IF StartsWith(statefulset_name, "vcluster-")
    THEN ReplaceFirst(statefulset_name, "vcluster-", "")
    ELSE statefulset_name

\* A registration named as the credential secret is.
ar_secret_name_of_credential(vcluster_name) == "vc-" \o vcluster_name

ar_secret_name(vcluster_name) == "vcluster-" \o vcluster_name

\* A lookup of the credential secret under the registration's prefix.
vc_secret_name_with_long_prefix(vcluster_name) == "vcluster-" \o vcluster_name

vc_secret_name(vcluster_name) == "vc-" \o vcluster_name

ManagedLabels ==
    [l \in {"argocd.argoproj.io/secret-type", "vcluster-operator"} |->
        IF l = "vcluster-operator" THEN "true" ELSE "cluster"]

\* json.dumps({"tlsClientConfig": {"caData": ca, "certData": cert, "keyData": key, "insecure": False}})
TlsClientConfigJson(ca, cert, key) ==
    "{\"tlsClientConfig\": {\"caData\": " \o JsonString(ca)
        \o ", \"certData\": " \o JsonString(cert)
        \o ", \"keyData\": " \o JsonString(key)
        \o ", \"insecure\": false}}"

\* The exception _build_argocd_secret raises on this secret ("none": none):
\* subscripting data = None is a TypeError, a missing key a KeyError.
BuildRaises(vc_secret) ==
    IF ~vc_secret.hasData THEN "TypeError"
    ELSE IF ~(CredentialFields \subseteq DOMAIN vc_secret.data) THEN "KeyError"
    ELSE "none"

\* A build that writes the target namespace into the server address.
_build_argocd_secret_target_in_server(vcluster_name, namespace, vc_secret, target) ==
    [apiVersion |-> "v1", kind |-> "Secret",
     metadata |-> [name |-> ar_secret_name(vcluster_name),
                   namespace |-> target,
                   labels |-> ManagedLabels],
     data |-> [name |-> encode(vcluster_name),
               server |-> encode("https://" \o vcluster_name \o "." \o target \o ".svc.cluster.local"),
               config |-> encode(TlsClientConfigJson(vc_secret.data["certificate-authority"],
                                                     vc_secret.data["client-certificate"],
                                                     vc_secret.data["client-key"]))]]

\* A build that puts the registration into the workload's own namespace.
_build_argocd_secret_in_source_namespace(vcluster_name, namespace, vc_secret, target) ==
    [apiVersion |-> "v1", kind |-> "Secret",
     metadata |-> [name |-> ar_secret_name(vcluster_name),
                   namespace |-> namespace,
                   labels |-> ManagedLabels],
     data |-> [name |-> encode(vcluster_name),
               server |-> encode("https://" \o vcluster_name \o "." \o namespace \o ".svc.cluster.local"),
               config |-> encode(TlsClientConfigJson(vc_secret.data["certificate-authority"],
                                                     vc_secret.data["client-certificate"],
                                                     vc_secret.data["client-key"]))]]

\* operator.py 63-90, with ARGOCD_NAMESPACE passed as target
_build_argocd_secret(vcluster_name, namespace, vc_secret, target) ==
    [apiVersion |-> "v1", kind |-> "Secret",
     metadata |-> [name |-> ar_secret_name(vcluster_name),
                   namespace |-> target,
                   labels |-> ManagedLabels],
     data |-> [name |-> encode(vcluster_name),
               server |-> encode("https://" \o vcluster_name \o "." \o namespace \o ".svc.cluster.local"),
               config |-> encode(TlsClientConfigJson(vc_secret.data["certificate-authority"],
                                                     vc_secret.data["client-certificate"],
                                                     vc_secret.data["client-key"]))]]

(***************************************************************************)
(* The state.                                                              *)
(***************************************************************************)

VARIABLES
    secrets,            \* the store: <<namespace, name>> -> V1Secret, for the secrets that exist
    ARGOCD_NAMESPACE,   \* operator.py 10: read from the environment at import
    _k8s_configured,     \* operator.py 14: _k8s_configured
    _core_v1_api,        \* operator.py 15: _core_v1_api, 0 for None, else the client object's id
    _apps_v1_api,        \* operator.py 16: _apps_v1_api, likewise
    constructed,        \* how many client objects were constructed so far
    inv,                \* per executor thread: the handler invocation it runs
    tooling             \* steps of other parties so far

vars == <<secrets, ARGOCD_NAMESPACE, _k8s_configured, _core_v1_api, _apps_v1_api,
          constructed, inv, tooling>>

clientVars == <<_k8s_configured, _core_v1_api, _apps_v1_api, constructed>>

EnrollmentHandlers == {"vcluster_created", "vcluster_resumed", "vcluster_updated"}

Handlers == EnrollmentHandlers \cup {"vcluster_deleted"}

\* A thread that runs no handler.
Idle ==
    [pc |-> "idle", handler |-> "", name |-> "", namespace |-> "", core_v1_api |-> 0,
     vc_secret |-> NoSecret, secret_body |-> NoBody, calls |-> <<>>, result |-> NoResult]

\* One call of the store client, as the invocation's log keeps it.
Call(op, namespace, name, exc) == [op |-> op, namespace |-> namespace, name |-> name, exc |-> exc]

\* The credential secrets of the workloads and the registration secrets, by address.
CredentialKeys == {<<w[2], vc_secret_name(vc_name(w[1]))>> : w \in Workloads}

RegistrationKeys == {<<ARGOCD_NAMESPACE, ar_secret_name(vc_name(w[1]))>> : w \in Workloads}

\* A registration secret somebody else wrote, with content of their own: a
\* label and a data field the operator's body does not have.
ForeignRegistration ==
    V1Secret([l \in {"owner"} |-> "other"], TRUE, [name |-> "b2xk", project |-> "b2xk"])

\* The store when the operator starts: of each credential secret, none or a
\* well-formed one; no registration secret yet.
InitialStores ==
    {[k \in K |-> V1Secret(<<>>, TRUE, [f \in CredentialFields |-> "Q0Ex"])] : K \in SUBSET CredentialKeys}

Init ==
    /\ secrets \in InitialStores
    /\ ARGOCD_NAMESPACE \in {ArgocdNamespaceOf(e) : e \in EnvArgocdNamespace}
    /\ _k8s_configured = FALSE
    /\ _core_v1_api = 0
    /\ _apps_v1_api = 0
    /\ constructed = 0
    /\ inv = [t \in Threads |-> Idle]
    /\ tooling = 0

(***************************************************************************)
(* The store: what each call answers and does.  A call fails with `fault`  *)
(* when the store or the connection fails it; NoException is no fault.     *)
(***************************************************************************)

Exists(key) == key \in DOMAIN secrets

Put(key, obj) == [k \in DOMAIN secrets \cup {key} |-> IF k = key THEN obj ELSE secrets[k]]

Remove(key) == [k \in DOMAIN secrets \ {key} |-> secrets[k]]

\* The object the store keeps for a body sent to it.
AsStored(body) == V1Secret(body.metadata.labels, TRUE, body.data)

\* read_namespaced_secret(name, namespace)
ReadAnswer(key, fault) ==
    IF fault # NoException THEN fault
    ELSE IF ~Exists(key) THEN ApiException(404)
    ELSE NoException

\* create_namespaced_secret(namespace, body)
CreateAnswer(namespace, body, fault) ==
    IF fault # NoException THEN fault
    ELSE IF body.metadata.namespace # namespace THEN ApiException(400)
    ELSE IF Exists(<<namespace, body.metadata.name>>) THEN ApiException(409)
    ELSE NoException

\* replace_namespaced_secret(name, namespace, body)
ReplaceAnswer(name, namespace, body, fault) ==
    IF fault # NoException THEN fault
    ELSE IF body.metadata.namespace # namespace \/ body.metadata.name # name THEN ApiException(400)
    ELSE IF ~Exists(<<namespace, name>>) THEN ApiException(404)
    ELSE NoException

\* delete_namespaced_secret(name, namespace)
DeleteAnswer(key, fault) ==
    IF fault # NoException THEN fault
    ELSE IF ~Exists(key) THEN ApiException(404)
    ELSE NoException

(***************************************************************************)
(* The handlers' decisions (operator.py 93-135, 167-193).                  *)
(***************************************************************************)

\* The delay of every kopf.TemporaryError the operator raises.
RetryDelay == 60

\* A read for which only not-found is worth a retry.
ReadFailureOnlyNotFoundRetryable(e, namespace, name) ==
    IF e.class = "ApiException" /\ e.status = 404
    THEN Raised("TemporaryError",
                "Failed to read vcluster secret " \o namespace \o "/" \o name \o ": " \o e.text,
                60)
    ELSE Raised("PermanentError", "Failed to read vcluster secret: " \o e.text, 0)

\* A read whose every failure is permanent.
ReadFailureAlwaysPermanent(e, namespace, name) ==
    Raised("PermanentError", "Failed to read vcluster secret: " \o e.text, 0)

\* operator.py 107-112: what a failed read of the credential secret raises.
ReadFailure(e, namespace, name) ==
    IF e.class = "ApiException"
    THEN Raised("TemporaryError",
                "Failed to read vcluster secret " \o namespace \o "/" \o name \o ": " \o e.text,
                RetryDelay)
    ELSE Raised("PermanentError", "Failed to read vcluster secret: " \o e.text, 0)

\* operator.py 114-118: only KeyError and IndexError are caught; any other
\* exception of the build leaves the handler as it is.
BuildFailure(exc, namespace, name) ==
    IF exc \in {"KeyError", "IndexError"}
    THEN Raised("PermanentError", "Failed to parse vcluster secret: " \o namespace \o "/" \o name, 0)
    ELSE Raised(exc, "", 0)

\* A create that never falls back to the replace.
CreateNeverFallsBack(e) == FALSE

\* A create that falls back to the replace on not-found instead of on the conflict.
CreateFallsBackOnNotFound(e) == e.class = "ApiException" /\ e.status = 404

\* operator.py 126-127: the create's exception that leads to the replace.
CreateFallsBack(e) == e.class = "ApiException" /\ e.status = 409

\* operator.py 126-133: what any other failed create raises; an exception
\* that is no ApiException is not caught.
CreateFailure(e) ==
    IF e.class = "ApiException"
    THEN Raised("TemporaryError", "Failed to create ArgoCD secret: " \o e.text, RetryDelay)
    ELSE Raised(e.class, e.text, 0)

\* operator.py 129: the replace runs inside the except clause, with no
\* handler of its own: its exception leaves the handler as it is.
ReplaceFailure(e) == Raised(e.class, e.text, 0)

\* operator.py 135
EnrollmentSuccess == Returned("Success", "")

\* A removal that reports not-found like any other failure.
DeleteResultNotFoundAsFailed(e) ==
    IF e = NoException THEN Returned("Success", "") ELSE Returned("Failed", e.text)

\* A removal that raises on a failure other than not-found.
DeleteResultRaisesOnFailure(e) ==
    IF e = NoException THEN Returned("Success", "")
    ELSE IF e.class = "ApiException" /\ e.status = 404 THEN Returned("None", "")
    ELSE Raised("PermanentError", e.text, 0)

\* operator.py 179-193: the result of vcluster_deleted after its delete call;
\* the 404 branch only logs, and the function ends without a return value.
DeleteResult(e) ==
    IF e = NoException THEN Returned("Success", "")
    ELSE IF e.class = "ApiException" /\ e.status = 404 THEN Returned("None", "")
    ELSE Returned("Failed", e.text)

\* operator.py 30-32: what _ensure_k8s raises when the configuration cannot be loaded.
ConfigFailure == Raised("PermanentError", "Could not configure kubernetes client", 0)

(***************************************************************************)
(* The actions.                                                            *)
(***************************************************************************)

\* The invocation of thread t moves on: its log gains `calls`, its locals change.
Goto(t, pc, calls) == [inv[t] EXCEPT !.pc = pc, !.calls = @ \o calls]

Finish(t, calls, result) == [inv[t] EXCEPT !.pc = "done", !.calls = @ \o calls, !.result = result]

\* No finished invocation waits for the dispatcher.  A finished invocation is
\* read by nobody but the dispatcher, so taking it first loses no behaviour of
\* the store or the handlers.
Quiet == \A t \in Threads : inv[t].pc # "done"

\* The dispatcher starts handler h for workload w on a free thread.
Dispatch(t, h, w) ==
    /\ Quiet
    /\ inv[t].pc = "idle"
    /\ inv' = [inv EXCEPT ![t] = [Idle EXCEPT !.pc = "ensure", !.handler = h,
                                              !.name = w[1], !.namespace = w[2]]]
    /\ UNCHANGED <<secrets, ARGOCD_NAMESPACE, clientVars, tooling>>

\* A resumed event that is acknowledged without the reconciliation.
EnsureExitResumedSkips(t) ==
    IF _core_v1_api = 0 \/ _apps_v1_api = 0
    THEN Finish(t, <<>>, Raised("AssertionError", "", 0))
    ELSE IF inv[t].handler = "vcluster_resumed"
    THEN [Finish(t, <<>>, Returned("None", "")) EXCEPT !.core_v1_api = _core_v1_api]
    ELSE [Goto(t, IF inv[t].handler \in EnrollmentHandlers THEN "read" ELSE "delete", <<>>)
             EXCEPT !.core_v1_api = _core_v1_api]

\* operator.py 36-38, and the caller's core_v1_api, _ = _ensure_k8s(): the
\* invocation of thread t after them.
EnsureExit(t) ==
    IF _core_v1_api = 0 \/ _apps_v1_api = 0
    THEN Finish(t, <<>>, Raised("AssertionError", "", 0))
    ELSE [Goto(t, IF inv[t].handler \in EnrollmentHandlers THEN "read" ELSE "delete", <<>>)
             EXCEPT !.core_v1_api = _core_v1_api]

\* operator.py 22: if not _k8s_configured.  The flag never goes back to False,
\* so with it set the function's remaining lines 36-38 are taken in this step.
EnsureCheck(t) ==
    /\ Quiet
    /\ inv[t].pc = "ensure"
    /\ inv' = [inv EXCEPT ![t] = IF _k8s_configured THEN EnsureExit(t) ELSE Goto(t, "load", <<>>)]
    /\ UNCHANGED <<secrets, ARGOCD_NAMESPACE, clientVars, tooling>>

\* A load whose failure still marks the client as configured.
EnsureLoadFailureMarksConfigured(t) ==
    /\ Quiet
    /\ inv[t].pc = "load"
    /\ \E loaded \in BOOLEAN :
          /\ inv' = [inv EXCEPT ![t] = IF loaded THEN Goto(t, "core", <<>>)
                                       ELSE Finish(t, <<>>, ConfigFailure)]
          /\ _k8s_configured' = IF loaded THEN _k8s_configured ELSE TRUE
    /\ UNCHANGED <<secrets, ARGOCD_NAMESPACE, _core_v1_api, _apps_v1_api, constructed, tooling>>

\* operator.py 23-32: the configuration loads, or ConfigException
EnsureLoad(t) ==
    /\ Quiet
    /\ inv[t].pc = "load"
    /\ \E loaded \in BOOLEAN :
          inv' = [inv EXCEPT ![t] = IF loaded THEN Goto(t, "core", <<>>)
                                    ELSE Finish(t, <<>>, ConfigFailure)]
    /\ UNCHANGED <<secrets, ARGOCD_NAMESPACE, clientVars, tooling>>

\* An initialisation that sets the flag as soon as the first client is constructed.
EnsureCoreMarksConfigured(t) ==
    /\ Quiet
    /\ inv[t].pc = "core"
    /\ _core_v1_api' = constructed + 1
    /\ constructed' = constructed + 1
    /\ _k8s_configured' = TRUE
    /\ inv' = [inv EXCEPT ![t] = Goto(t, "apps", <<>>)]
    /\ UNCHANGED <<secrets, ARGOCD_NAMESPACE, _apps_v1_api, tooling>>

\* operator.py 33: _core_v1_api = client.CoreV1Api()
EnsureCore(t) ==
    /\ Quiet
    /\ inv[t].pc = "core"
    /\ _core_v1_api' = constructed + 1
    /\ constructed' = constructed + 1
    /\ inv' = [inv EXCEPT ![t] = Goto(t, "apps", <<>>)]
    /\ UNCHANGED <<secrets, ARGOCD_NAMESPACE, _k8s_configured, _apps_v1_api, tooling>>

\* operator.py 34: _apps_v1_api = client.AppsV1Api()
EnsureApps(t) ==
    /\ Quiet
    /\ inv[t].pc = "apps"
    /\ _apps_v1_api' = constructed + 1
    /\ constructed' = constructed + 1
    /\ inv' = [inv EXCEPT ![t] = Goto(t, "flag", <<>>)]
    /\ UNCHANGED <<secrets, ARGOCD_NAMESPACE, _k8s_configured, _core_v1_api, tooling>>

\* operator.py 35: _k8s_configured = True
EnsureFlag(t) ==
    /\ Quiet
    /\ inv[t].pc = "flag"
    /\ _k8s_configured' = TRUE
    /\ inv' = [inv EXCEPT ![t] = Goto(t, "assert", <<>>)]
    /\ UNCHANGED <<secrets, ARGOCD_NAMESPACE, _core_v1_api, _apps_v1_api, constructed, tooling>>

\* operator.py 36-38 after the initialisation of lines 23-35
EnsureReturn(t) ==
    /\ Quiet
    /\ inv[t].pc = "assert"
    /\ inv' = [inv EXCEPT ![t] = EnsureExit(t)]
    /\ UNCHANGED <<secrets, ARGOCD_NAMESPACE, clientVars, tooling>>

\* operator.py 99-118: read the credential secret and build the body
EnrollRead(t) ==
    /\ Quiet
    /\ inv[t].pc = "read"
    /\ LET vcluster_name == vc_name(inv[t].name)
           vcluster_secret_name == vc_secret_name(vcluster_name)
           key == <<inv[t].namespace, vcluster_secret_name>>
       IN  \E fault \in Faults \cup {NoException} :
              LET e == ReadAnswer(key, fault)
                  call == <<Call("read", key[1], key[2], e)>>
              IN  inv' = [inv EXCEPT ![t] =
                     IF e # NoException
                     THEN Finish(t, call, ReadFailure(e, key[1], key[2]))
                     ELSE IF BuildRaises(secrets[key]) # "none"
                     THEN [Finish(t, call, BuildFailure(BuildRaises(secrets[key]), key[1], key[2]))
                              EXCEPT !.vc_secret = secrets[key]]
                     ELSE [Goto(t, "create", call)
                              EXCEPT !.vc_secret = secrets[key],
                                     !.secret_body = _build_argocd_secret(vcluster_name, inv[t].namespace,
                                                                         secrets[key], ARGOCD_NAMESPACE)]]
    /\ UNCHANGED <<secrets, ARGOCD_NAMESPACE, clientVars, tooling>>

\* An enrollment that calls the create again, once, when the store fails it.
EnrollCreateRetriesInside(t) ==
    /\ Quiet
    /\ inv[t].pc = "create"
    /\ LET body == inv[t].secret_body
       IN  \E fault \in Faults \cup {NoException} :
              LET e == CreateAnswer(ARGOCD_NAMESPACE, body, fault)
                  call == <<Call("create", ARGOCD_NAMESPACE, body.metadata.name, e)>>
              IN  /\ secrets' = IF e = NoException
                                THEN Put(<<ARGOCD_NAMESPACE, body.metadata.name>>, AsStored(body))
                                ELSE secrets
                  /\ inv' = [inv EXCEPT ![t] =
                        IF e = NoException THEN Finish(t, call, EnrollmentSuccess)
                        ELSE IF CreateFallsBack(e) THEN Goto(t, "replace", call)
                        ELSE IF Len(inv[t].calls) < 2 THEN Goto(t, "create", call)
                        ELSE Finish(t, call, CreateFailure(e))]
    /\ UNCHANGED <<ARGOCD_NAMESPACE, clientVars, tooling>>

\* operator.py 120-133: create the registration secret
EnrollCreate(t) ==
    /\ Quiet
    /\ inv[t].pc = "create"
    /\ LET body == inv[t].secret_body
       IN  \E fault \in Faults \cup {NoException} :
              LET e == CreateAnswer(ARGOCD_NAMESPACE, body, fault)
                  call == <<Call("create", ARGOCD_NAMESPACE, body.metadata.name, e)>>
              IN  /\ secrets' = IF e = NoException
                                THEN Put(<<ARGOCD_NAMESPACE, body.metadata.name>>, AsStored(body))
                                ELSE secrets
                  /\ inv' = [inv EXCEPT ![t] =
                        IF e = NoException THEN Finish(t, call, EnrollmentSuccess)
                        ELSE IF CreateFallsBack(e) THEN Goto(t, "replace", call)
                        ELSE Finish(t, call, CreateFailure(e))]
    /\ UNCHANGED <<ARGOCD_NAMESPACE, clientVars, tooling>>

\* The object a store that merged the body into the old object would keep.
Merged(old, body) ==
    V1Secret([l \in DOMAIN old.labels \cup DOMAIN body.metadata.labels |->
                 IF l \in DOMAIN body.metadata.labels THEN body.metadata.labels[l] ELSE old.labels[l]],
             TRUE,
             [f \in DOMAIN old.data \cup DOMAIN body.data |->
                 IF f \in DOMAIN body.data THEN body.data[f] ELSE old.data[f]])

\* An enrollment that patches the registration secret after the conflict.
EnrollReplacePatches(t) ==
    /\ Quiet
    /\ inv[t].pc = "replace"
    /\ LET body == inv[t].secret_body
           argocd_secret_name == ar_secret_name(vc_name(inv[t].name))
       IN  \E fault \in Faults \cup {NoException} :
              LET e == ReplaceAnswer(argocd_secret_name, ARGOCD_NAMESPACE, body, fault)
                  call == <<Call("replace", ARGOCD_NAMESPACE, argocd_secret_name, e)>>
              IN  /\ secrets' = IF e = NoException
                                THEN Put(<<ARGOCD_NAMESPACE, argocd_secret_name>>,
                                         Merged(secrets[<<ARGOCD_NAMESPACE, argocd_secret_name>>], body))
                                ELSE secrets
                  /\ inv' = [inv EXCEPT ![t] =
                        IF e = NoException THEN Finish(t, call, EnrollmentSuccess)
                        ELSE Finish(t, call, ReplaceFailure(e))]
    /\ UNCHANGED <<ARGOCD_NAMESPACE, clientVars, tooling>>

\* operator.py 128-130, 135: replace the registration secret after the conflict
EnrollReplace(t) ==
    /\ Quiet
    /\ inv[t].pc = "replace"
    /\ LET body == inv[t].secret_body
           argocd_secret_name == ar_secret_name(vc_name(inv[t].name))
       IN  \E fault \in Faults \cup {NoException} :
              LET e == ReplaceAnswer(argocd_secret_name, ARGOCD_NAMESPACE, body, fault)
                  call == <<Call("replace", ARGOCD_NAMESPACE, argocd_secret_name, e)>>
              IN  /\ secrets' = IF e = NoException
                                THEN Put(<<ARGOCD_NAMESPACE, argocd_secret_name>>, AsStored(body))
                                ELSE secrets
                  /\ inv' = [inv EXCEPT ![t] =
                        IF e = NoException THEN Finish(t, call, EnrollmentSuccess)
                        ELSE Finish(t, call, ReplaceFailure(e))]
    /\ UNCHANGED <<ARGOCD_NAMESPACE, clientVars, tooling>>

\* A removal that looks the credential secret up first and gives up without it.
DeletedDeleteNeedsCredential(t) ==
    /\ Quiet
    /\ inv[t].pc = "delete"
    /\ LET key == <<ARGOCD_NAMESPACE, ar_secret_name(vc_name(inv[t].name))>>
           cred == <<inv[t].namespace, vc_secret_name(vc_name(inv[t].name))>>
       IN  \E fault \in Faults \cup {NoException} :
              LET found == ReadAnswer(cred, NoException)
                  e == DeleteAnswer(key, fault)
                  call == IF found = NoException
                          THEN <<Call("read", cred[1], cred[2], found), Call("delete", key[1], key[2], e)>>
                          ELSE <<Call("read", cred[1], cred[2], found)>>
              IN  /\ secrets' = IF found = NoException /\ e = NoException THEN Remove(key) ELSE secrets
                  /\ inv' = [inv EXCEPT ![t] =
                        Finish(t, call, IF found = NoException THEN DeleteResult(e)
                                        ELSE Returned("Failed", found.text))]
    /\ UNCHANGED <<ARGOCD_NAMESPACE, clientVars, tooling>>

\* A removal that deletes every secret of the target namespace that carries
\* the operator's label, whichever vCluster it registers.
DeletedDeleteEveryRegistration(t) ==
    /\ Quiet
    /\ inv[t].pc = "delete"
    /\ LET key == <<ARGOCD_NAMESPACE, ar_secret_name(vc_name(inv[t].name))>>
           managed == {k \in DOMAIN secrets :
                          /\ k[1] = ARGOCD_NAMESPACE
                          /\ "vcluster-operator" \in DOMAIN secrets[k].labels}
       IN  \E fault \in Faults \cup {NoException} :
              LET e == DeleteAnswer(key, fault)
                  call == <<Call("delete", key[1], key[2], e)>>
              IN  /\ secrets' = IF e = NoException
                                THEN [k \in DOMAIN secrets \ managed |-> secrets[k]]
                                ELSE secrets
                  /\ inv' = [inv EXCEPT ![t] = Finish(t, call, DeleteResult(e))]
    /\ UNCHANGED <<ARGOCD_NAMESPACE, clientVars, tooling>>

\* operator.py 174-193: delete the registration secret
DeletedDelete(t) ==
    /\ Quiet
    /\ inv[t].pc = "delete"
    /\ LET key == <<ARGOCD_NAMESPACE, ar_secret_name(vc_name(inv[t].name))>>
       IN  \E fault \in Faults \cup {NoException} :
              LET e == DeleteAnswer(key, fault)
                  call == <<Call("delete", key[1], key[2], e)>>
              IN  /\ secrets' = IF e = NoException THEN Remove(key) ELSE secrets
                  /\ inv' = [inv EXCEPT ![t] = Finish(t, call, DeleteResult(e))]
    /\ UNCHANGED <<ARGOCD_NAMESPACE, clientVars, tooling>>

\* The vCluster tooling writes (creates, rotates, breaks) a credential secret.
ToolingWritesCredential(key, obj) ==
    /\ Quiet
    /\ tooling < MaxToolingSteps
    /\ IF Exists(key) THEN secrets[key] # obj ELSE TRUE
    /\ secrets' = Put(key, obj)
    /\ tooling' = tooling + 1
    /\ UNCHANGED <<ARGOCD_NAMESPACE, clientVars, inv>>

\* Somebody else writes a registration secret of their own under the operator's name.
ToolingWritesRegistration(key) ==
    /\ Quiet
    /\ tooling < MaxToolingSteps
    /\ IF Exists(key) THEN secrets[key] # ForeignRegistration ELSE TRUE
    /\ secrets' = Put(key, ForeignRegistration)
    /\ tooling' = tooling + 1
    /\ UNCHANGED <<ARGOCD_NAMESPACE, clientVars, inv>>

\* Somebody else removes a secret.
ToolingRemoves(key) ==
    /\ Quiet
    /\ tooling < MaxToolingSteps
    /\ Exists(key)
    /\ secrets' = Remove(key)
    /\ tooling' = tooling + 1
    /\ UNCHANGED <<ARGOCD_NAMESPACE, clientVars, inv>>

\* The dispatcher takes the outcome of the invocation that thread t finished.
Collect(t) ==
    /\ inv[t].pc = "done"
    /\ inv' = [inv EXCEPT ![t] = Idle]
    /\ UNCHANGED <<secrets, ARGOCD_NAMESPACE, clientVars, tooling>>

\* The steps of the operator with its handlers running in the threads T.
Steps(T) ==
    \/ \E t \in T : Collect(t)
    \/ \E t \in T, h \in Handlers, w \in Workloads : Dispatch(t, h, w)
    \/ \E t \in T : EnsureCheck(t)
    \/ \E t \in T : EnsureLoad(t)
    \/ \E t \in T : EnsureCore(t)
    \/ \E t \in T : EnsureApps(t)
    \/ \E t \in T : EnsureFlag(t)
    \/ \E t \in T : EnsureReturn(t)
    \/ \E t \in T : EnrollRead(t)
    \/ \E t \in T : EnrollCreate(t)
    \/ \E t \in T : EnrollReplace(t)
    \/ \E t \in T : DeletedDelete(t)
    \/ \E key \in CredentialKeys, obj \in CredentialSecrets : ToolingWritesCredential(key, obj)
    \/ \E key \in RegistrationKeys : ToolingWritesRegistration(key)
    \/ \E key \in CredentialKeys \cup RegistrationKeys : ToolingRemoves(key)

\* Handlers run one at a time (one executor thread), among the other parties' steps.
Next == Steps({"t1"})

Spec == Init /\ [][Next]_vars

(***************************************************************************)
(* What the claims speak of.                                               *)
(***************************************************************************)

Success == Returned("Success", "")

Done(t) == inv[t].pc = "done"

Enrolling(t) == inv[t].handler \in EnrollmentHandlers

Removing(t) == inv[t].handler = "vcluster_deleted"

LastCall(r) == r.calls[Len(r.calls)]

\* The store calls of an invocation, by name and in order.
Ops(r) == [i \in 1..Len(r.calls) |-> r.calls[i].op]

\* The invocation raised kopf.TemporaryError with delay 60.
Retryable(r) == r.result.kind = "raise" /\ r.result.value = "TemporaryError" /\ r.result.delay = 60

\* The invocation raised kopf.PermanentError.
Fatal(r) == r.result.kind = "raise" /\ r.result.value = "PermanentError"

\* The address of the credential and of the registration secret of a workload.
CredentialKeyOf(name, namespace) == <<namespace, "vc-" \o vc_name(name)>>

RegistrationKeyOf(name) == <<ARGOCD_NAMESPACE, "vcluster-" \o vc_name(name)>>

\* A credential secret with all three fields.
WellFormed(secret) == secret.hasData /\ CredentialFields \subseteq DOMAIN secret.data

\* obj is the registration of the vCluster `identity` of source namespace
\* `namespace`, as the credential secret `cred` gives it.
IsRegistrationOf(obj, identity, namespace, cred) ==
    /\ DOMAIN obj.labels = {"argocd.argoproj.io/secret-type", "vcluster-operator"}
    /\ obj.labels["argocd.argoproj.io/secret-type"] = "cluster"
    /\ obj.labels["vcluster-operator"] = "true"
    /\ obj.hasData
    /\ DOMAIN obj.data = {"name", "server", "config"}
    /\ obj.data.name = encode(identity)
    /\ decode(obj.data.name) = identity
    /\ decode(obj.data.server) = "https://" \o identity \o "." \o namespace \o ".svc.cluster.local"
    /\ decode(obj.data.config) =
          "{\"tlsClientConfig\": {\"caData\": \"" \o cred.data["certificate-authority"]
             \o "\", \"certData\": \"" \o cred.data["client-certificate"]
             \o "\", \"keyData\": \"" \o cred.data["client-key"]
             \o "\", \"insecure\": false}}"

(***************************************************************************)
(* C1  Fresh enrollment.  With the credential secret "vc-"+identity in the *)
(* workload's namespace holding all three fields and no store call failed  *)
(* by the store, the read is followed by the create; and when no           *)
(* registration secret exists the create ends the invocation with          *)
(* {status: Success}, after which the store holds "vcluster-"+identity in  *)
(* the target namespace with the two labels, data.name = encode(identity), *)
(* data.server the encoded https://identity.namespace.svc.cluster.local    *)
(* and data.config the encoded JSON with the three credential values        *)
(* verbatim and insecure false.                                            *)
(***************************************************************************)
FreshEnrollment ==
    [][\A t \in Threads :
          LET r == inv[t]
              r2 == inv'[t]
              credKey == CredentialKeyOf(r.name, r.namespace)
              regKey == RegistrationKeyOf(r.name)
          IN  /\ ( /\ r.pc = "read" /\ r2.pc # "read"
                   /\ LastCall(r2).exc \notin Faults
                   /\ credKey \in DOMAIN secrets
                   /\ WellFormed(secrets[credKey]) )
                 => r2.pc = "create" /\ r2.vc_secret = secrets[credKey]
              /\ ( /\ r.pc = "create" /\ r2.pc # "create"
                   /\ LastCall(r2).exc \notin Faults
                   /\ regKey \notin DOMAIN secrets )
                 => /\ r2.pc = "done"
                    /\ r2.result = Success
                    /\ regKey \in DOMAIN secrets'
                    /\ IsRegistrationOf(secrets'[regKey], vc_name(r.name), r.namespace, r.vc_secret)
      ]_vars

\* An invocation that read the credential, created the registration and returned Success.
FreshEnrollmentWitness ==
    \E t \in Threads :
        /\ Done(t) /\ Enrolling(t)
        /\ Ops(inv[t]) = <<"read", "create">>
        /\ LastCall(inv[t]).exc = NoException
        /\ inv[t].result = Success
        /\ RegistrationKeyOf(inv[t].name) \in DOMAIN secrets

(***************************************************************************)
(* C2  Conflict on create.  An enrollment invocation whose create was      *)
(* answered 409 goes on to the replace and to nothing else; it ends having *)
(* called read, create, replace, each once and in this order; and when the *)
(* replace succeeded it returned {status: Success}.                        *)
(***************************************************************************)
ConflictOnCreate ==
    \A t \in Threads :
        LET r == inv[t]
        IN  (Enrolling(t) /\ \E i \in 1..Len(r.calls) :
                                r.calls[i].op = "create" /\ r.calls[i].exc = ApiException(409))
            => /\ r.pc \in {"replace", "done"}
               /\ r.pc = "replace" => Ops(r) = <<"read", "create">>
               /\ r.pc = "done" => Ops(r) = <<"read", "create", "replace">>
               /\ (r.pc = "done" /\ LastCall(r).exc = NoException) => r.result = Success

\* An invocation whose create met the conflict and whose replace succeeded.
ConflictOnCreateWitness ==
    \E t \in Threads :
        /\ Done(t) /\ Enrolling(t)
        /\ Len(inv[t].calls) = 3
        /\ inv[t].calls[2].exc = ApiException(409)
        /\ inv[t].calls[3].op = "replace"
        /\ inv[t].calls[3].exc = NoException
        /\ inv[t].result = Success

(***************************************************************************)
(* C3  Replace failure is retryable.  An enrollment invocation whose       *)
(* create was answered 409 and whose replace failed raised                 *)
(* kopf.TemporaryError with delay 60.                                      *)
(***************************************************************************)
ReplaceFailureRetryable ==
    \A t \in Threads :
        LET r == inv[t]
        IN  ( /\ Done(t) /\ Enrolling(t)
              /\ Len(r.calls) = 3
              /\ r.calls[2].exc = ApiException(409)
              /\ r.calls[3].exc # NoException )
            => Retryable(r)

(***************************************************************************)
(* C4  Missing credential secret.  When the read of "vc-"+identity is      *)
(* answered 404 the invocation ends there, raising kopf.TemporaryError     *)
(* with delay 60; it has called neither create nor replace, and the step   *)
(* leaves the store as it was.                                             *)
(***************************************************************************)
MissingCredentialRetryable ==
    [][\A t \in Threads :
          LET r == inv[t]
              r2 == inv'[t]
          IN  ( /\ r.pc = "read" /\ r2.pc # "read"
                /\ LastCall(r2).exc = ApiException(404) )
              => /\ r2.pc = "done"
                 /\ Retryable(r2)
                 /\ Ops(r2) = <<"read">>
                 /\ LastCall(r2).name = "vc-" \o vc_name(r.name)
                 /\ secrets' = secrets
      ]_vars

\* An invocation that found no credential secret.
MissingCredentialWitness ==
    \E t \in Threads :
        /\ Done(t) /\ Enrolling(t)
        /\ Len(inv[t].calls) = 1
        /\ inv[t].calls[1].exc = ApiException(404)
        /\ CredentialKeyOf(inv[t].name, inv[t].namespace) \notin DOMAIN secrets

MalformedCredentialFatal ==
    \A t \in Threads :
        LET r == inv[t]
        IN  ( /\ Done(t) /\ Enrolling(t)
              /\ Len(r.calls) >= 1
              /\ r.calls[1].exc = NoException
              /\ ~WellFormed(r.vc_secret) )
            => Fatal(r) /\ Ops(r) = <<"read">>

(***************************************************************************)
(* C7  Enrollment outcomes are closed.  A finished enrollment invocation   *)
(* returned {status: Success}, or raised kopf.TemporaryError with delay    *)
(* 60, or raised kopf.PermanentError; and it returned Success only when    *)
(* its last store call succeeded.                                          *)
(***************************************************************************)
EnrollmentOutcomesClosed ==
    \A t \in Threads :
        LET r == inv[t]
        IN  (Done(t) /\ Enrolling(t))
            => /\ r.result = Success \/ Retryable(r) \/ Fatal(r)
               /\ r.result = Success => (Len(r.calls) >= 2 /\ LastCall(r).exc = NoException)

(***************************************************************************)
(* C8 as stated  Removal of an already-absent registration.  When the      *)
(* delete was answered 404 the deleted-event handler returned              *)
(* {status: Success}, as for a delete that succeeded.                      *)
(***************************************************************************)
RemovalOfAbsentIsSuccess ==
    \A t \in Threads :
        LET r == inv[t]
        IN  ( /\ Done(t) /\ Removing(t)
              /\ Len(r.calls) = 1
              /\ r.calls[1].exc = ApiException(404) )
            => r.result = Success

(***************************************************************************)
(* C8 amended  When the delete was answered 404 the deleted-event handler  *)
(* raised no error and returned no value (None); {status: Success} is what *)
(* it returned when the delete succeeded.                                  *)
(***************************************************************************)
RemovalOfAbsentReturnsNone ==
    \A t \in Threads :
        LET r == inv[t]
        IN  (Done(t) /\ Removing(t) /\ Len(r.calls) = 1)
            => /\ r.calls[1].exc = ApiException(404) => r.result = Returned("None", "")
               /\ r.calls[1].exc = NoException => r.result = Success

\* A removal that found no registration secret to delete.
RemovalOfAbsentWitness ==
    \E t \in Threads :
        /\ Done(t) /\ Removing(t)
        /\ Ops(inv[t]) = <<"delete">>
        /\ inv[t].calls[1].exc = ApiException(404)
        /\ RegistrationKeyOf(inv[t].name) \notin DOMAIN secrets

(***************************************************************************)
(* C9  Soft failure on removal.  When the delete failed with anything but  *)
(* 404 (a store error status or not) the deleted-event handler returned    *)
(* {status: Failed, message: the error's text} without raising, and the    *)
(* step left the store as it was.                                          *)
(***************************************************************************)
SoftFailureOnRemoval ==
    [][\A t \in Threads :
          LET r == inv[t]
              r2 == inv'[t]
          IN  ( /\ r.pc = "delete" /\ r2.pc # "delete"
                /\ LastCall(r2).exc \notin {NoException, ApiException(404)} )
              => /\ r2.pc = "done"
                 /\ r2.result.kind = "return"
                 /\ r2.result.value = "Failed"
                 /\ r2.result.message = LastCall(r2).exc.text
                 /\ secrets' = secrets
      ]_vars

\* A removal whose delete the store failed, the registration secret still there.
SoftFailureOnRemovalWitness ==
    \E t \in Threads :
        /\ Done(t) /\ Removing(t)
        /\ Ops(inv[t]) = <<"delete">>
        /\ inv[t].calls[1].exc = ApiException(503)
        /\ inv[t].result.value = "Failed"
        /\ RegistrationKeyOf(inv[t].name) \in DOMAIN secrets

(***************************************************************************)
(* C10  Removal never blocks deletion.  Every finished invocation of the   *)
(* deleted-event handler returned a value; none raised.                    *)
(***************************************************************************)
RemovalNeverRaises ==
    \A t \in Threads : (Done(t) /\ Removing(t)) => inv[t].result.kind = "return"

(***************************************************************************)
(* C11  Lifecycle cleanup.  The removal's one store call is the delete of  *)
(* "vcluster-"+identity in the target namespace; it never reads the        *)
(* credential secret, and its outcome is that of the registration's         *)
(* presence alone, the credential secret there or not: absent a fault of   *)
(* the store the delete succeeds exactly when the registration exists.     *)
(* When the delete succeeded the handler returned {status: Success} and    *)
(* no secret of that name is left in the target namespace.                 *)
(***************************************************************************)
LifecycleCleanup ==
    [][\A t \in Threads :
          LET r == inv[t]
              r2 == inv'[t]
              regKey == RegistrationKeyOf(r.name)
          IN  (r.pc = "delete" /\ r2.pc # "delete")
              => /\ r2.pc = "done"
                 /\ Ops(r2) = <<"delete">>
                 /\ LastCall(r2).namespace = ARGOCD_NAMESPACE
                 /\ LastCall(r2).name = "vcluster-" \o vc_name(r.name)
                 /\ LastCall(r2).exc \notin Faults
                       => (LastCall(r2).exc = NoException <=> regKey \in DOMAIN secrets)
                 /\ LastCall(r2).exc = NoException
                       => /\ r2.result = Success
                          /\ regKey \notin DOMAIN secrets'
                          /\ \A k \in DOMAIN secrets' :
                                ~(k[1] = ARGOCD_NAMESPACE /\ k[2] = "vcluster-" \o vc_name(r.name))
      ]_vars

\* A removal that succeeded with the credential secret of its workload gone.
LifecycleCleanupWitness ==
    \E t \in Threads :
        /\ Done(t) /\ Removing(t)
        /\ Ops(inv[t]) = <<"delete">>
        /\ inv[t].calls[1].exc = NoException
        /\ inv[t].result = Success
        /\ RegistrationKeyOf(inv[t].name) \notin DOMAIN secrets
        /\ CredentialKeyOf(inv[t].name, inv[t].namespace) \notin DOMAIN secrets

\* The registration secret an enrollment of this workload leaves in the
\* store, as the workload's credential secret now in the store gives it.
RegistrationFor(name, namespace) ==
    AsStored(_build_argocd_secret(vc_name(name), namespace,
                                  secrets[CredentialKeyOf(name, namespace)], ARGOCD_NAMESPACE))

\* The store is as a successful enrollment of this workload left it: the
\* credential secret well formed, the registration the one built from it.
Settled(name, namespace) ==
    /\ CredentialKeyOf(name, namespace) \in DOMAIN secrets
    /\ WellFormed(secrets[CredentialKeyOf(name, namespace)])
    /\ RegistrationKeyOf(name) \in DOMAIN secrets
    /\ secrets[RegistrationKeyOf(name)] = RegistrationFor(name, namespace)

(***************************************************************************)
(* C12  Idempotent reconciliation.  With the store as a successful         *)
(* enrollment of the workload left it and the credential secret the one    *)
(* the invocation read, every step of a further enrollment invocation of   *)
(* that workload leaves the whole store exactly as it is, and, the store   *)
(* not failing its calls, the invocation goes from the read to the create, *)
(* from the create (answered 409) to the replace, and from the replace to  *)
(* {status: Success}.                                                      *)
(***************************************************************************)
IdempotentReconciliation ==
    [][\A t \in Threads :
          LET r == inv[t]
              r2 == inv'[t]
              called == Len(r2.calls) > Len(r.calls)
              \* after the read the body is built: the store is settled when the
              \* credential is still the one read and the registration is that body
              settled == IF r.pc \in {"create", "replace"}
                         THEN /\ CredentialKeyOf(r.name, r.namespace) \in DOMAIN secrets
                              /\ r.vc_secret = secrets[CredentialKeyOf(r.name, r.namespace)]
                              /\ RegistrationKeyOf(r.name) \in DOMAIN secrets
                              /\ secrets[RegistrationKeyOf(r.name)] = AsStored(r.secret_body)
                         ELSE Settled(r.name, r.namespace)
          IN  ( /\ Enrolling(t) /\ r2 # r /\ r.pc # "done"
                /\ called => LastCall(r2).exc \notin Faults
                /\ settled )
              => /\ secrets' = secrets
                 /\ r.pc = "read" => r2.pc = "create"
                 /\ r.pc = "create" => r2.pc = "replace" /\ LastCall(r2).exc = ApiException(409)
                 /\ r.pc = "replace" => r2.pc = "done" /\ r2.result = Success /\ Settled(r.name, r.namespace)
      ]_vars

\* A further enrollment that returned Success: no other party ever wrote, so
\* the registration its create met was an earlier enrollment's, and the
\* store is still as that one left it.
IdempotentReconciliationWitness ==
    \E t \in Threads :
        /\ Done(t) /\ Enrolling(t)
        /\ tooling = 0
        /\ Ops(inv[t]) = <<"read", "create", "replace">>
        /\ inv[t].calls[2].exc = ApiException(409)
        /\ inv[t].calls[3].exc = NoException
        /\ inv[t].result = Success
        /\ Settled(inv[t].name, inv[t].namespace)

(***************************************************************************)
(* Concurrent enrollment: kopf runs the synchronous handlers in a pool of  *)
(* executor threads, so the created, resumed and updated events of one     *)
(* workload may run handle_vcluster_enrollment at the same time.           *)
(***************************************************************************)

\* The StatefulSets of the one vCluster of identity "x" in namespace "ns1".
ConcurrentWorkloads == {w \in Workloads : vc_name(w[1]) = "x" /\ w[2] = "ns1"}

\* The store answers the call of this step: the step logs no call that the
\* store or the connection failed.
StoreAnswers ==
    \A t \in Threads :
        Len(inv'[t].calls) > Len(inv[t].calls) => LastCall(inv'[t]).exc \notin Faults

\* The enrollment handlers of one vCluster in all the threads, the store not
\* failing and no other party writing.
NextConcurrent ==
    \/ \E t \in Threads : Collect(t)
    \/ \E t \in Threads, h \in EnrollmentHandlers, w \in ConcurrentWorkloads : Dispatch(t, h, w)
    \/ \E t \in Threads : EnsureCheck(t)
    \/ \E t \in Threads : EnsureLoad(t)
    \/ \E t \in Threads : EnsureCore(t)
    \/ \E t \in Threads : EnsureApps(t)
    \/ \E t \in Threads : EnsureFlag(t)
    \/ \E t \in Threads : EnsureReturn(t)
    \/ \E t \in Threads : EnrollRead(t) /\ StoreAnswers
    \/ \E t \in Threads : EnrollCreate(t) /\ StoreAnswers
    \/ \E t \in Threads : EnrollReplace(t) /\ StoreAnswers

SpecConcurrent == Init /\ [][NextConcurrent]_vars

\* How many of the invocation's calls were answered 409.
Conflicts(r) == Cardinality({i \in 1..Len(r.calls) : r.calls[i].exc = ApiException(409)})

(***************************************************************************)
(* C13  Concurrent duplicate enrollment converges.  With enrollment        *)
(* invocations of one vCluster running in several threads at once, in any  *)
(* interleaving of their steps, and the store answering every call: an     *)
(* invocation that read the credential secret never ends in an error but   *)
(* returns {status: Success}; it met at most one conflict; and when it     *)
(* ends the target namespace holds one secret, "vcluster-"+identity,       *)
(* whose labels and data are the body built from the credential secret.    *)
(***************************************************************************)
ConcurrentEnrollmentConverges ==
    \A t \in Threads :
        LET r == inv[t]
        IN  /\ Conflicts(r) <= 1
            /\ (Done(t) /\ Len(r.calls) >= 1 /\ r.calls[1].exc = NoException)
               => /\ r.result = Success
                  /\ {k \in DOMAIN secrets : k[1] = ARGOCD_NAMESPACE /\ StartsWith(k[2], "vcluster-")}
                        = {RegistrationKeyOf(r.name)}
                  /\ Settled(r.name, r.namespace)

\* Two invocations at once, of different handlers: the one in thread t met
\* the conflict, replaced the registration and returned Success while the one
\* in thread u, which has read the credential secret, is about to create.
ConcurrentEnrollmentWitness ==
    \E t, u \in Threads :
        /\ t # u
        /\ Done(t) /\ Ops(inv[t]) = <<"read", "create", "replace">>
        /\ inv[t].result = Success
        /\ inv[u].pc = "create"
        /\ inv[u].handler # inv[t].handler

\* The step leaves the secret at address k as it is, there or not.
Untouched(k) ==
    /\ k \in DOMAIN secrets <=> k \in DOMAIN secrets'
    /\ k \in DOMAIN secrets => secrets'[k] = secrets[k]

\* Thread t takes a step of the handler it runs.
HandlerStep(t) == inv[t].pc \notin {"idle", "done"} /\ inv'[t] # inv[t]

(***************************************************************************)
(* C14 as stated  No step of an enrollment or removal invocation creates,  *)
(* replaces or deletes the credential secret or any other object in the    *)
(* source workload's namespace.                                            *)
(***************************************************************************)
SourceNamespaceUntouched ==
    [][\A t \in Threads :
          HandlerStep(t)
          => \A k \in DOMAIN secrets \cup DOMAIN secrets' :
                k[1] = inv[t].namespace => Untouched(k)
      ]_vars

(***************************************************************************)
(* C14 amended  No step of an enrollment or removal invocation, on any     *)
(* path, creates, replaces or deletes the credential secret "vc-"+identity *)
(* of any workload; the one store object a step may change is the secret   *)
(* "vcluster-"+identity of the invocation's workload in the target         *)
(* namespace.  So nothing in the source workload's namespace changes,      *)
(* unless that namespace is itself the target namespace, where the         *)
(* registration secret is written beside the credential secret.            *)
(***************************************************************************)
CredentialReadOnly ==
    [][\A t \in Threads :
          HandlerStep(t)
          => /\ \A k \in DOMAIN secrets \cup DOMAIN secrets' :
                   k # RegistrationKeyOf(inv[t].name) => Untouched(k)
             /\ \A w \in Workloads : Untouched(CredentialKeyOf(w[1], w[2]))
             /\ inv[t].namespace # ARGOCD_NAMESPACE
                   => \A k \in DOMAIN secrets \cup DOMAIN secrets' :
                         k[1] = inv[t].namespace => Untouched(k)
      ]_vars

\* An enrollment of a workload that lives in the target namespace: it wrote
\* the registration there and the credential secret is as it was read.
CredentialReadOnlyWitness ==
    \E t \in Threads :
        /\ Done(t) /\ Enrolling(t)
        /\ inv[t].namespace = ARGOCD_NAMESPACE
        /\ inv[t].result = Success
        /\ RegistrationKeyOf(inv[t].name) \in DOMAIN secrets
        /\ CredentialKeyOf(inv[t].name, inv[t].namespace) \in DOMAIN secrets
        /\ secrets[CredentialKeyOf(inv[t].name, inv[t].namespace)] = inv[t].vc_secret

(***************************************************************************)
(* The pure functions on their own: each called on every input of a        *)
(* bounded set, as the repository's unit tests call them on a few.         *)
(***************************************************************************)

\* How many pieces a StatefulSet name is put together from.
MaxNamePieces == 3

\* How long a string given to encode is.
MaxCodecLen == 3

NamePieces == {"vcluster-", "vcluster", "x", "-", "my-app"}

CodecAlphabet == {":", "/", ".", "a", "~", "Z"}

RECURSIVE Concatenations(_, _)
\* The strings put together from at most n elements of `pieces`.
Concatenations(pieces, n) ==
    IF n = 0 THEN {""}
    ELSE LET shorter == Concatenations(pieces, n - 1)
         IN  shorter \cup {s \o p : s \in shorter, p \in pieces}

\* The names test_name_extraction could be given: with the prefix once, twice,
\* in the middle, cut short, alone, and the empty name.
StatefulSetNames == Concatenations(NamePieces, MaxNamePieces)

\* The strings test_encode_decode could be given.
CodecStrings == Concatenations(CodecAlphabet, MaxCodecLen)

\* test_name_extraction(statefulset_name, ...), before its call of vc_name
NameFrame(s) == [pc |-> "call", handler |-> "test_name_extraction", statefulset_name |-> s, returned |-> ""]

\* test_encode_decode with test_string = s, before its call of encode
CodecFrame(s) ==
    [pc |-> "encode", handler |-> "test_encode_decode", test_string |-> s, encoded |-> "", decoded |-> ""]

InitFunctions ==
    /\ secrets = <<>>
    /\ ARGOCD_NAMESPACE = ArgocdNamespaceOf("unset")
    /\ _k8s_configured = FALSE
    /\ _core_v1_api = 0
    /\ _apps_v1_api = 0
    /\ constructed = 0
    /\ tooling = 0
    /\ \E frame \in {NameFrame(s) : s \in StatefulSetNames} \cup {CodecFrame(s) : s \in CodecStrings} :
          inv = [t \in Threads |-> IF t = "t1" THEN frame ELSE Idle]

\* vc_name(statefulset_name)
CallVcName(t) ==
    /\ inv[t].handler = "test_name_extraction"
    /\ inv[t].pc = "call"
    /\ inv' = [inv EXCEPT ![t].pc = "returned", ![t].returned = vc_name(inv[t].statefulset_name)]
    /\ UNCHANGED <<secrets, ARGOCD_NAMESPACE, clientVars, tooling>>

\* encoded = encode(test_string)
CallEncode(t) ==
    /\ inv[t].handler = "test_encode_decode"
    /\ inv[t].pc = "encode"
    /\ inv' = [inv EXCEPT ![t].pc = "decode", ![t].encoded = encode(inv[t].test_string)]
    /\ UNCHANGED <<secrets, ARGOCD_NAMESPACE, clientVars, tooling>>

\* decoded = decode(encoded)
CallDecode(t) ==
    /\ inv[t].handler = "test_encode_decode"
    /\ inv[t].pc = "decode"
    /\ inv' = [inv EXCEPT ![t].pc = "returned", ![t].decoded = decode(inv[t].encoded)]
    /\ UNCHANGED <<secrets, ARGOCD_NAMESPACE, clientVars, tooling>>

NextFunctions ==
    \/ \E t \in Threads : CallVcName(t)
    \/ \E t \in Threads : CallEncode(t)
    \/ \E t \in Threads : CallDecode(t)

SpecFunctions == InitFunctions /\ [][NextFunctions]_vars

(***************************************************************************)
(* C15  Identity derivation.  vc_name returns a string for every name it   *)
(* is given, the empty one and those shorter than the prefix included.     *)
(* For a name that does not start with "vcluster-" it returns the name;    *)
(* for a name "vcluster-"+s it returns s, whatever s is: s itself may      *)
(* start with "vcluster-" or contain it, only the leftmost occurrence is   *)
(* removed.                                                                *)
(***************************************************************************)
IdentityDerivation ==
    \A t \in Threads :
        LET f == inv[t]
        IN  f.handler = "test_name_extraction"
            => /\ f.pc \in {"call", "returned"}
               /\ f.pc = "returned"
                  => /\ f.returned \in STRING
                     /\ ~StartsWith(f.statefulset_name, "vcluster-") => f.returned = f.statefulset_name
                     /\ \A s \in StatefulSetNames :
                           f.statefulset_name = "vcluster-" \o s => f.returned = s

\* vc_name given a name with the prefix twice: one prefix is left.
IdentityDerivationWitness ==
    \E t \in Threads :
        /\ inv[t].handler = "test_name_extraction"
        /\ inv[t].pc = "returned"
        /\ inv[t].statefulset_name = "vcluster-vcluster-x"
        /\ inv[t].returned = "vcluster-x"

(***************************************************************************)
(* C20  Base64 round trip.  For every string s of the bounded alphabet,    *)
(* with ':', '/' and '.' in it, decode(encode(s)) = s; the encoded text is *)
(* made of whole groups of four characters of the base64 alphabet and '='. *)
(***************************************************************************)
Base64RoundTrip ==
    \A t \in Threads :
        LET f == inv[t]
        IN  f.handler = "test_encode_decode"
            => /\ f.pc \in {"decode", "returned"}
                  => /\ Len(f.encoded) = 4 * ((Len(f.test_string) + 2) \div 3)
                     /\ \A i \in 1..Len(f.encoded) :
                           CharAt(f.encoded, i) \in DOMAIN B64Index \cup {"="}
               /\ f.pc = "returned" => f.decoded = f.test_string

\* The round trip of the string ":/.", whose encoding is "Oi8u".
Base64RoundTripWitness ==
    \E t \in Threads :
        /\ inv[t].handler = "test_encode_decode"
        /\ inv[t].pc = "returned"
        /\ inv[t].test_string = ":/."
        /\ inv[t].encoded = "Oi8u"
        /\ inv[t].decoded = ":/."

\* The identity of the vCluster of a StatefulSet name, as the specification
\* derives it: the name without its one leading "vcluster-", if it has one.
IdentityOf(n) == IF StartsWith(n, "vcluster-") THEN SubSeq(n, Len("vcluster-") + 1, Len(n)) ELSE n

(***************************************************************************)
(* C16  Secret addressing.  For a workload named n of identity x, every    *)
(* read an invocation issues is of ("vc-"+x, the workload's namespace),    *)
(* every create and replace is under the name "vcluster-"+x, which is also *)
(* the name in the body sent, and every delete is of "vcluster-"+x.  An    *)
(* enrollment issues no delete and a removal nothing but the delete.  For  *)
(* n = "vcluster-"+s the lookup is of "vc-"+s and the registration is      *)
(* named n itself.                                                         *)
(***************************************************************************)
SecretAddressing ==
    \A t \in Threads :
        LET r == inv[t]
            x == IdentityOf(r.name)
        IN  r.pc # "idle"
            => /\ \A i \in 1..Len(r.calls) :
                     LET c == r.calls[i]
                     IN  /\ c.op = "read" => c.name = "vc-" \o x /\ c.namespace = r.namespace
                         /\ c.op \in {"create", "replace", "delete"} => c.name = "vcluster-" \o x
                         /\ c.op \in {"read", "create", "replace"} => Enrolling(t)
                         /\ c.op = "delete" => Removing(t)
                         /\ StartsWith(r.name, "vcluster-")
                               => /\ c.op = "read" => "vcluster-" \o SubSeq(c.name, 4, Len(c.name)) = r.name
                                  /\ c.op # "read" => c.name = r.name
               /\ r.pc \in {"create", "replace"} => r.secret_body.metadata.name = "vcluster-" \o x
               /\ (Done(t) /\ r.result = Success /\ Enrolling(t))
                     => <<ARGOCD_NAMESPACE, "vcluster-" \o x>> \in DOMAIN secrets

\* The enrollment of the workload "vcluster-x": it read "vc-x" and wrote "vcluster-x".
SecretAddressingWitness ==
    \E t \in Threads :
        /\ Done(t) /\ Enrolling(t)
        /\ inv[t].name = "vcluster-x"
        /\ Len(inv[t].calls) = 2
        /\ inv[t].calls[1].name = "vc-x" /\ inv[t].calls[1].namespace = "ns1"
        /\ inv[t].calls[2].name = "vcluster-x"
        /\ inv[t].result = Success
        /\ <<ARGOCD_NAMESPACE, "vcluster-x">> \in DOMAIN secrets

\* Every create, replace and delete the invocations logged, and every body
\* built, is addressed to the configured target namespace.
WritesGoToTarget ==
    \A t \in Threads :
        LET r == inv[t]
        IN  r.pc # "idle"
            => /\ \A i \in 1..Len(r.calls) :
                     r.calls[i].op \in {"create", "replace", "delete"}
                     => /\ r.calls[i].namespace = ARGOCD_NAMESPACE
                        /\ r.namespace # ARGOCD_NAMESPACE => r.calls[i].namespace # r.namespace
               /\ r.pc \in {"create", "replace"}
                     => r.secret_body.metadata.namespace = ARGOCD_NAMESPACE
               /\ (Done(t) /\ Enrolling(t) /\ Len(r.calls) >= 2)
                     => r.secret_body.metadata.namespace = r.calls[2].namespace

IsReconciliation(r) ==
    LET x == IdentityOf(r.name)
        n == Len(r.calls)
        answer(i) == r.calls[i].exc
    IN  /\ n <= 3
        /\ n = 0 => \/ r.pc \in {"ensure", "load", "core", "apps", "flag", "assert", "read"}
                    \/ r.pc = "done" /\ r.result.kind = "raise"
                       /\ r.result.value \in {"PermanentError", "AssertionError"}
        /\ n >= 1 => r.calls[1] = Call("read", r.namespace, "vc-" \o x, answer(1))
        /\ n >= 2 => r.calls[2] = Call("create", ARGOCD_NAMESPACE, "vcluster-" \o x, answer(2))
        /\ n = 3 => r.calls[3] = Call("replace", ARGOCD_NAMESPACE, "vcluster-" \o x, answer(3))
        /\ (n = 1 /\ answer(1) # NoException)
              => r.pc = "done" /\ r.result = ReadFailure(answer(1), r.namespace, "vc-" \o x)
        /\ (n = 1 /\ answer(1) = NoException /\ ~WellFormed(r.vc_secret))
              => r.pc = "done" /\ r.result.kind = "raise"
        /\ (n = 1 /\ answer(1) = NoException /\ WellFormed(r.vc_secret))
              => r.pc = "create"
        /\ n >= 2 => /\ answer(1) = NoException /\ WellFormed(r.vc_secret)
                     /\ AsStored(r.secret_body).labels = ManagedLabels
                     /\ decode(r.secret_body.data.name) = x
        /\ (n = 2 /\ answer(2) = NoException) => r.pc = "done" /\ r.result = Success
        /\ (n = 2 /\ answer(2) = ApiException(409)) => r.pc = "replace"
        /\ (n = 2 /\ answer(2) \notin {NoException, ApiException(409)})
              => r.pc = "done" /\ r.result = CreateFailure(answer(2))
        /\ n = 3 => /\ answer(2) = ApiException(409)
                    /\ r.pc = "done"
                    /\ r.result = IF answer(3) = NoException THEN Success ELSE ReplaceFailure(answer(3))

\* What a step of the reconciliation does to the store and what its call is
\* answered: both follow from the store and from whether the store failed the
\* call, whichever handler runs.
IsReconciliationStep(r, r2) ==
    LET credKey == <<r.namespace, "vc-" \o IdentityOf(r.name)>>
        regKey == <<ARGOCD_NAMESPACE, "vcluster-" \o IdentityOf(r.name)>>
        called == Len(r2.calls) > Len(r.calls)
        c == LastCall(r2)
    IN  /\ ~called => secrets' = secrets
        /\ called
           => /\ Len(r2.calls) = Len(r.calls) + 1
              /\ c.exc \notin Faults
                 => /\ c.op = "read" => (c.exc = NoException <=> credKey \in DOMAIN secrets)
                    /\ c.op = "read" /\ c.exc = NoException => r2.vc_secret = secrets[credKey]
                    /\ c.op = "create" => (c.exc = NoException <=> regKey \notin DOMAIN secrets)
                    /\ c.op = "replace" => (c.exc = NoException <=> regKey \in DOMAIN secrets)
              /\ secrets' = IF c.op \in {"create", "replace"} /\ c.exc = NoException
                            THEN Put(regKey, AsStored(r.secret_body))
                            ELSE secrets

(***************************************************************************)
(* C18  Event routing.  The created, the resumed and the updated handler   *)
(* are one reconciliation: what an invocation of any of the three calls,   *)
(* returns or raises, and what each of its steps does to the store, is     *)
(* given by the workload's name and namespace, the store and the faults of *)
(* the store alone, by one rule in which the handler does not occur.  So   *)
(* started from the same store with the same (name, namespace) the three   *)
(* issue the same calls, end the same way and leave the same store, the    *)
(* resumed event for a workload that was there before the operator         *)
(* included.                                                               *)
(***************************************************************************)
EventRouting ==
    /\ [](\A t \in Threads :
             inv[t].handler \in {"vcluster_created", "vcluster_resumed", "vcluster_updated"}
             => IsReconciliation(inv[t]))
    /\ [][\A t \in Threads :
             ( /\ inv[t].handler \in {"vcluster_created", "vcluster_resumed", "vcluster_updated"}
               /\ inv[t].pc # "done"
               /\ inv'[t] # inv[t] )
             => IsReconciliationStep(inv[t], inv'[t])
         ]_vars

\* The resumed event of a workload that was there with its credential secret
\* before the operator started, no other party acting: its handler read,
\* created and returned Success, as the created handler does in C1.
EventRoutingWitness ==
    \E t \in Threads :
        /\ Done(t)
        /\ inv[t].handler = "vcluster_resumed"
        /\ tooling = 0
        /\ Ops(inv[t]) = <<"read", "create">>
        /\ inv[t].result = Success
        /\ Settled(inv[t].name, inv[t].namespace)

(***************************************************************************)
(* Retry: kopf calls a handler that raised kopf.TemporaryError(delay=60)   *)
(* again for the same event after the delay, and calls a handler that      *)
(* returned or raised anything else no more for that event.                *)
(***************************************************************************)

\* The dispatcher calls the handler of thread t again: its last invocation
\* raised kopf.TemporaryError.
Retry(t) ==
    /\ inv[t].pc = "done"
    /\ Retryable(inv[t])
    /\ inv' = [inv EXCEPT ![t] = [Idle EXCEPT !.pc = "ensure", !.handler = inv[t].handler,
                                              !.name = inv[t].name, !.namespace = inv[t].namespace]]
    /\ UNCHANGED <<secrets, ARGOCD_NAMESPACE, clientVars, tooling>>

\* The steps of the handler that thread t runs, the retry included.
Runs(t) ==
    \/ EnsureCheck(t)
    \/ EnsureLoad(t)
    \/ EnsureCore(t)
    \/ EnsureApps(t)
    \/ EnsureFlag(t)
    \/ EnsureReturn(t)
    \/ EnrollRead(t)
    \/ EnrollCreate(t)
    \/ EnrollReplace(t)
    \/ Retry(t)

\* The workload whose enrollment events are followed through their retries.
Late == <<"x", "ns1">>

\* The enrollment events of the workload handled one at a time and retried,
\* among the other parties' steps and the store's faults.
NextRetry ==
    \/ Collect("t1") /\ ~Retryable(inv["t1"])
    \/ Retry("t1")
    \/ \E h \in EnrollmentHandlers : Dispatch("t1", h, Late)
    \/ EnsureCheck("t1")
    \/ EnsureLoad("t1")
    \/ EnsureCore("t1")
    \/ EnsureApps("t1")
    \/ EnsureFlag("t1")
    \/ EnsureReturn("t1")
    \/ EnrollRead("t1")
    \/ EnrollCreate("t1")
    \/ EnrollReplace("t1")
    \/ \E key \in CredentialKeys, obj \in CredentialSecrets : ToolingWritesCredential(key, obj)
    \/ \E key \in RegistrationKeys : ToolingWritesRegistration(key)
    \/ \E key \in CredentialKeys \cup RegistrationKeys : ToolingRemoves(key)

\* A handler that was started runs to its end, and a retry that is due is made.
SpecRetry == Init /\ [][NextRetry]_vars /\ WF_vars(Runs("t1"))

Invoked(w) ==
    \E t \in Threads : Enrolling(t) /\ inv[t].name = w[1] /\ inv[t].namespace = w[2]

CredentialReady(w) ==
    /\ CredentialKeyOf(w[1], w[2]) \in DOMAIN secrets
    /\ WellFormed(secrets[CredentialKeyOf(w[1], w[2])])

Enrolled(w) ==
    \E t \in Threads :
        /\ Done(t) /\ Enrolling(t)
        /\ inv[t].name = w[1] /\ inv[t].namespace = w[2]
        /\ inv[t].result = Success
        /\ RegistrationKeyOf(w[1]) \in DOMAIN secrets

\* No invocation has ended in _ensure_k8s for a configuration that does not load.
ClientConfigured == \A t \in Threads : Done(t) => inv[t].result # ConfigFailure

\* No enrollment invocation of the workload has ended in an error that is not retried.
RetriesGoOn(w) ==
    \A t \in Threads :
        (Done(t) /\ Enrolling(t) /\ inv[t].name = w[1] /\ inv[t].namespace = w[2])
        => (inv[t].result = Success \/ Retryable(inv[t]))

RunNamespaces == {<<>>, <<"">>, <<"ns1">>}

RunPriorities == {0, 5}

RunPeeringNames == {<<>>, <<"peer">>}

\* Python's truth value of an Optional[str]: None and "" are false.
Truthy(opt) == Len(opt) = 1 /\ opt[1] # ""

\* cli.py 40-50: run(namespace=..., clusterwide=..., ...) at its line 80; `given`
\* keeps the clusterwide option as the caller passed it.
RunFrame(namespace, clusterwide, dev, verbose, standalone, priority, peering_name) ==
    [pc |-> "scope", handler |-> "run", namespace |-> namespace,
     given |-> clusterwide, clusterwide |-> clusterwide,
     dev |-> dev, verbose |-> verbose, standalone |-> standalone,
     priority |-> priority, peering_name |-> peering_name,
     kopf_args |-> <<>>, argv |-> <<>>]

RunFrames ==
    {RunFrame(n, c, d, v, s, p, q) :
        n \in RunNamespaces, c \in BOOLEAN, d \in BOOLEAN, v \in BOOLEAN, s \in BOOLEAN,
        p \in RunPriorities, q \in RunPeeringNames}

\* The vCluster the manual commands are given, and where it is deployed.
ManualNames == {"x", "vcluster-x"}

ManualNamespaces == {"ns1"}

\* What the user answers to the prompt of unenroll.
Responses == {"y", "Y", "n", ""}

RECURSIVE Lower(_)
\* str.lower() of an ASCII string
Lower(s) ==
    IF Len(s) = 0 THEN ""
    ELSE LET c == CharAt(s, 1)
         IN  (IF Ord(c) >= 65 /\ Ord(c) <= 90 THEN Chr(Ord(c) + 32) ELSE c)
             \o Lower(SubSeq(s, 2, Len(s)))

\* cli.py 210-215: enroll(vcluster_name, namespace, force=...) at its line 233
EnrollFrame(vcluster_name, namespace, force) ==
    [pc |-> "config", handler |-> "enroll", vcluster_name |-> vcluster_name,
     namespace |-> namespace, force |-> force,
     vc_secret |-> NoSecret, argocd_secret |-> NoBody, calls |-> <<>>, result |-> NoResult]

\* cli.py 303-307: unenroll(vcluster_name, confirm=...) at its line 319, and
\* what the user will answer if asked
UnenrollFrame(vcluster_name, confirm, response) ==
    [pc |-> "confirm", handler |-> "unenroll", vcluster_name |-> vcluster_name,
     confirm |-> confirm, response |-> response, calls |-> <<>>, result |-> NoResult]

ManualFrames ==
    {EnrollFrame(n, ns, f) : n \in ManualNames, ns \in ManualNamespaces, f \in BOOLEAN}
    \cup {UnenrollFrame(n, c, a) : n \in ManualNames, c \in BOOLEAN, a \in Responses}

\* The store a manual command finds: of the credential secret of "x" none, a
\* well-formed or a malformed one; of its registration in "argocd" none, the
\* operator's or another party's.
ManualStores ==
    LET cred == <<"ns1", "vc-x">>
        reg == <<"argocd", "vcluster-x">>
        wellFormed == V1Secret(<<>>, TRUE, [f \in CredentialFields |-> "Q0Ex"])
        creds == {wellFormed, V1Secret(<<>>, TRUE, [f \in {"some-field"} |-> "value"])}
        regs == {ForeignRegistration, AsStored(_build_argocd_secret("x", "ns1", wellFormed, "argocd"))}
    IN  {<<>>}
        \cup {[k \in {cred} |-> c] : c \in creds}
        \cup {[k \in {reg} |-> r] : r \in regs}
        \cup {[k \in {cred, reg} |-> IF k = cred THEN c ELSE r] : c \in creds, r \in regs}

\* sys.exit(1)
SystemExit == Raised("SystemExit", "1", 0)

\* The end of a command function without a return value.
ReturnedNone == Returned("None", "")

\* cli.py 260-284: the body the enroll command builds
ManualArgocdSecret(vcluster_name, namespace, vc_secret) ==
    [apiVersion |-> "v1", kind |-> "Secret",
     metadata |-> [name |-> "vcluster-" \o vcluster_name,
                   namespace |-> "argocd",
                   labels |-> [l \in {"argocd.argoproj.io/secret-type", "vcluster-operator"} |->
                                  IF l = "vcluster-operator" THEN "true" ELSE "cluster"]],
     data |-> [name |-> encode(vcluster_name),
               server |-> encode("https://" \o vcluster_name \o "." \o namespace \o ".svc.cluster.local"),
               config |-> encode(TlsClientConfigJson(vc_secret.data["certificate-authority"],
                                                     vc_secret.data["client-certificate"],
                                                     vc_secret.data["client-key"]))]]

\* The frame of thread t moves on.
Step(t, pc, calls) == [inv[t] EXCEPT !.pc = pc, !.calls = @ \o calls]

End(t, calls, result) == [inv[t] EXCEPT !.pc = "exit", !.calls = @ \o calls, !.result = result]

\* cli.py 233-238 and 325-330: load the configuration, in the cluster or
\* from the kubeconfig; the ConfigException of the latter is not caught.
ManualConfig(t) ==
    /\ inv[t].handler \in {"enroll", "unenroll"}
    /\ inv[t].pc = "config"
    /\ \E loaded \in BOOLEAN :
          inv' = [inv EXCEPT ![t] =
                     IF ~loaded THEN End(t, <<>>, Raised("ConfigException", "", 0))
                     ELSE IF inv[t].handler = "unenroll" THEN Step(t, "delete", <<>>)
                     ELSE Step(t, "check", <<>>)]
    /\ UNCHANGED <<secrets, ARGOCD_NAMESPACE, clientVars, tooling>>

\* cli.py 241-250: without force, look for the registration secret
ManualCheck(t) ==
    /\ inv[t].handler = "enroll"
    /\ inv[t].pc = "check"
    /\ LET key == <<"argocd", "vcluster-" \o inv[t].vcluster_name>>
       IN  IF inv[t].force
           THEN inv' = [inv EXCEPT ![t] = Step(t, "read", <<>>)]
           ELSE \E fault \in Faults \cup {NoException} :
                   LET e == ReadAnswer(key, fault)
                       call == <<Call("read", key[1], key[2], e)>>
                   IN  inv' = [inv EXCEPT ![t] =
                          IF e = NoException THEN End(t, call, ReturnedNone)
                          ELSE IF e.class = "ApiException" THEN Step(t, "read", call)
                          ELSE End(t, call, Raised(e.class, e.text, 0))]
    /\ UNCHANGED <<secrets, ARGOCD_NAMESPACE, clientVars, tooling>>

\* cli.py 252-284: read the credential secret and build the body
ManualRead(t) ==
    /\ inv[t].handler = "enroll"
    /\ inv[t].pc = "read"
    /\ LET key == <<inv[t].namespace, "vc-" \o inv[t].vcluster_name>>
       IN  \E fault \in Faults \cup {NoException} :
              LET e == ReadAnswer(key, fault)
                  call == <<Call("read", key[1], key[2], e)>>
              IN  inv' = [inv EXCEPT ![t] =
                     IF e # NoException
                     THEN End(t, call, IF e.class = "ApiException" THEN SystemExit
                                       ELSE Raised(e.class, e.text, 0))
                     ELSE IF BuildRaises(secrets[key]) # "none"
                     THEN [End(t, call, Raised(BuildRaises(secrets[key]), "", 0))
                              EXCEPT !.vc_secret = secrets[key]]
                     ELSE [Step(t, IF inv[t].force THEN "delete" ELSE "create", call)
                              EXCEPT !.vc_secret = secrets[key],
                                     !.argocd_secret = ManualArgocdSecret(inv[t].vcluster_name,
                                                                          inv[t].namespace, secrets[key])]]
    /\ UNCHANGED <<secrets, ARGOCD_NAMESPACE, clientVars, tooling>>

\* cli.py 287-292: with force, delete the registration secret first
ManualDelete(t) ==
    /\ inv[t].handler = "enroll"
    /\ inv[t].pc = "delete"
    /\ LET key == <<"argocd", "vcluster-" \o inv[t].vcluster_name>>
       IN  \E fault \in Faults \cup {NoException} :
              LET e == DeleteAnswer(key, fault)
                  call == <<Call("delete", key[1], key[2], e)>>
              IN  /\ secrets' = IF e = NoException THEN Remove(key) ELSE secrets
                  /\ inv' = [inv EXCEPT ![t] =
                        IF e = NoException \/ e.class = "ApiException" THEN Step(t, "create", call)
                        ELSE End(t, call, Raised(e.class, e.text, 0))]
    /\ UNCHANGED <<ARGOCD_NAMESPACE, clientVars, tooling>>

\* cli.py 294-299: create the registration secret
ManualCreate(t) ==
    /\ inv[t].handler = "enroll"
    /\ inv[t].pc = "create"
    /\ LET body == inv[t].argocd_secret
       IN  \E fault \in Faults \cup {NoException} :
              LET e == CreateAnswer("argocd", body, fault)
                  call == <<Call("create", "argocd", body.metadata.name, e)>>
              IN  /\ secrets' = IF e = NoException
                                THEN Put(<<"argocd", body.metadata.name>>, AsStored(body))
                                ELSE secrets
                  /\ inv' = [inv EXCEPT ![t] =
                        IF e = NoException THEN End(t, call, ReturnedNone)
                        ELSE IF e.class = "ApiException" THEN End(t, call, SystemExit)
                        ELSE End(t, call, Raised(e.class, e.text, 0))]
    /\ UNCHANGED <<ARGOCD_NAMESPACE, clientVars, tooling>>

\* cli.py 319-323: ask, unless confirm is given
UnenrollConfirm(t) ==
    /\ inv[t].handler = "unenroll"
    /\ inv[t].pc = "confirm"
    /\ inv' = [inv EXCEPT ![t] =
                  IF ~inv[t].confirm /\ Lower(inv[t].response) # "y"
                  THEN End(t, <<>>, ReturnedNone)
                  ELSE Step(t, "config", <<>>)]
    /\ UNCHANGED <<secrets, ARGOCD_NAMESPACE, clientVars, tooling>>

\* cli.py 331-341: delete the registration secret
UnenrollDelete(t) ==
    /\ inv[t].handler = "unenroll"
    /\ inv[t].pc = "delete"
    /\ LET key == <<"argocd", "vcluster-" \o inv[t].vcluster_name>>
       IN  \E fault \in Faults \cup {NoException} :
              LET e == DeleteAnswer(key, fault)
                  call == <<Call("delete", key[1], key[2], e)>>
              IN  /\ secrets' = IF e = NoException THEN Remove(key) ELSE secrets
                  /\ inv' = [inv EXCEPT ![t] =
                        IF e = NoException THEN End(t, call, ReturnedNone)
                        ELSE IF e.class = "ApiException"
                        THEN End(t, call, IF e.status = 404 THEN ReturnedNone ELSE SystemExit)
                        ELSE End(t, call, Raised(e.class, e.text, 0))]
    /\ UNCHANGED <<ARGOCD_NAMESPACE, clientVars, tooling>>

\* A command is started: run, or a manual command on some state of the store.
InitCli ==
    /\ ARGOCD_NAMESPACE \in {ArgocdNamespaceOf(e) : e \in EnvArgocdNamespace}
    /\ _k8s_configured = FALSE
    /\ _core_v1_api = 0
    /\ _apps_v1_api = 0
    /\ constructed = 0
    /\ tooling = 0
    /\ \/ /\ secrets = <<>>
          /\ \E frame \in RunFrames :
                inv = [t \in Threads |-> IF t = "t1" THEN frame ELSE Idle]
       \/ /\ secrets \in ManualStores
          /\ \E frame \in ManualFrames :
                inv = [t \in Threads |-> IF t = "t1" THEN frame ELSE Idle]

\* A run command that watches the namespace and leaves clusterwide as given.
RunScopeKeepsClusterwide(t) ==
    /\ inv[t].handler = "run"
    /\ inv[t].pc = "scope"
    /\ inv' = [inv EXCEPT ![t].pc = "args"]
    /\ UNCHANGED <<secrets, ARGOCD_NAMESPACE, clientVars, tooling>>

\* cli.py 80-84: if namespace: clusterwide = False
RunScope(t) ==
    /\ inv[t].handler = "run"
    /\ inv[t].pc = "scope"
    /\ inv' = [inv EXCEPT ![t].pc = "args",
                          ![t].clusterwide = IF Truthy(inv[t].namespace) THEN FALSE ELSE @]
    /\ UNCHANGED <<secrets, ARGOCD_NAMESPACE, clientVars, tooling>>

\* cli.py 90-108: kopf_args
RunKopfArgs(t) ==
    /\ inv[t].handler = "run"
    /\ inv[t].pc = "args"
    /\ LET f == inv[t]
       IN  inv' = [inv EXCEPT ![t].pc = "argv",
                              ![t].kopf_args =
                                  <<"--liveness=http://0.0.0.0:8080/healthz">>
                                  \o (IF Truthy(f.namespace) /\ ~f.clusterwide
                                      THEN <<"--namespace", f.namespace[1]>> ELSE <<>>)
                                  \o (IF f.dev THEN <<"--dev">> ELSE <<>>)
                                  \o (IF f.verbose THEN <<"--verbose">> ELSE <<>>)
                                  \o (IF f.standalone THEN <<"--standalone">> ELSE <<>>)
                                  \o (IF f.priority # 0 THEN <<"--priority", ToString(f.priority)>> ELSE <<>>)
                                  \o (IF Truthy(f.peering_name) THEN <<"--peering", f.peering_name[1]>> ELSE <<>>)]
    /\ UNCHANGED <<secrets, ARGOCD_NAMESPACE, clientVars, tooling>>

\* cli.py 113-116: sys.argv as kopf.cli.main() finds it
RunArgv(t) ==
    /\ inv[t].handler = "run"
    /\ inv[t].pc = "argv"
    /\ inv' = [inv EXCEPT ![t].pc = "main",
                          ![t].argv = <<"kopf", "run", "-m", "vcluster_argocd_enroller.operator">>
                                      \o inv[t].kopf_args
                                      \o (IF inv[t].clusterwide THEN <<"--all-namespaces">> ELSE <<>>)]
    /\ UNCHANGED <<secrets, ARGOCD_NAMESPACE, clientVars, tooling>>

NextCli ==
    \/ \E t \in Threads : RunScope(t)
    \/ \E t \in Threads : RunKopfArgs(t)
    \/ \E t \in Threads : RunArgv(t)
    \/ \E t \in Threads : ManualConfig(t)
    \/ \E t \in Threads : ManualCheck(t)
    \/ \E t \in Threads : ManualRead(t)
    \/ \E t \in Threads : ManualDelete(t)
    \/ \E t \in Threads : ManualCreate(t)
    \/ \E t \in Threads : UnenrollConfirm(t)
    \/ \E t \in Threads : UnenrollDelete(t)

SpecCli == InitCli /\ [][NextCli]_vars

\* Where the argument list names a namespace to watch, and the names it gives.
NamespaceFlags(argv) == {i \in 1..Len(argv) : argv[i] = "--namespace"}

WatchedNamespaces(argv) == {argv[i + 1] : i \in {j \in NamespaceFlags(argv) : j < Len(argv)}}

AllNamespacesFlags(argv) == {i \in 1..Len(argv) : argv[i] = "--all-namespaces"}

(***************************************************************************)
(* C21  Watch scope is mutually exclusive.  Whatever options the run       *)
(* command is given, the argument list it hands to kopf never has both     *)
(* "--namespace <ns>" and "--all-namespaces".  Given a namespace (a        *)
(* non-empty name) it has "--namespace <ns>" once, followed by that        *)
(* name, and no "--all-namespaces", whatever clusterwide was given; given  *)
(* no namespace and clusterwide true it has "--all-namespaces" once and    *)
(* no "--namespace".                                                       *)
(***************************************************************************)
WatchScopeExclusive ==
    \A t \in Threads :
        LET f == inv[t]
        IN  (f.handler = "run" /\ f.pc = "main")
            => /\ NamespaceFlags(f.argv) = {} \/ AllNamespacesFlags(f.argv) = {}
               /\ Truthy(f.namespace)
                  => /\ Cardinality(NamespaceFlags(f.argv)) = 1
                     /\ WatchedNamespaces(f.argv) = {f.namespace[1]}
                     /\ AllNamespacesFlags(f.argv) = {}
               /\ (~Truthy(f.namespace) /\ f.given)
                  => /\ Cardinality(AllNamespacesFlags(f.argv)) = 1
                     /\ NamespaceFlags(f.argv) = {}

\* run --namespace ns1 with clusterwide left at its default, true: kopf is
\* told to watch ns1 and nothing else.
WatchScopeWitness ==
    \E t \in Threads :
        /\ inv[t].handler = "run"
        /\ inv[t].pc = "main"
        /\ inv[t].namespace = <<"ns1">>
        /\ inv[t].given
        /\ inv[t].argv = <<"kopf", "run", "-m", "vcluster_argocd_enroller.operator",
                           "--liveness=http://0.0.0.0:8080/healthz", "--namespace", "ns1">>

(***************************************************************************)
(* C22  Update propagates by full replace.  The step in which an           *)
(* enrollment invocation's replace succeeds (its create was answered 409:  *)
(* a registration secret was there, an earlier enrollment's from an older  *)
(* credential or another party's) leaves at "vcluster-"+identity in the    *)
(* target namespace exactly the body built from the credential secret the  *)
(* invocation read: the two managed labels and no other, the fields name,  *)
(* server and config and no other, which is what a create of that body     *)
(* stores; every other secret is as it was.                                *)
(***************************************************************************)
UpdateByFullReplace ==
    [][\A t \in Threads :
          LET r == inv[t]
              r2 == inv'[t]
              key == RegistrationKeyOf(r.name)
              fresh == AsStored(_build_argocd_secret(vc_name(r.name), r.namespace, r.vc_secret,
                                                     ARGOCD_NAMESPACE))
          IN  ( /\ Enrolling(t) /\ r.pc = "replace"
                /\ r2.pc = "done" /\ r2.result = Success )
              => /\ key \in DOMAIN secrets
                 /\ Ops(r2) = <<"read", "create", "replace">>
                 /\ r2.calls[2].exc = ApiException(409)
                 /\ DOMAIN secrets' = DOMAIN secrets
                 /\ secrets'[key] = fresh
                 /\ secrets'[key] = AsStored(r.secret_body)
                 /\ secrets'[key].labels = ManagedLabels
                 /\ DOMAIN secrets'[key].data = {"name", "server", "config"}
                 /\ IsRegistrationOf(secrets'[key], vc_name(r.name), r.namespace, r.vc_secret)
                 /\ \A k \in DOMAIN secrets \ {key} : secrets'[k] = secrets[k]
      ]_vars

\* The credential secret was rotated after a first enrollment (the only step
\* of another party): the update's create met the registration built from
\* the old credential, and its replace stored the one built from the new.
UpdateByFullReplaceWitness ==
    \E t \in Threads :
        /\ Done(t) /\ Enrolling(t)
        /\ tooling = 1
        /\ Ops(inv[t]) = <<"read", "create", "replace">>
        /\ inv[t].result = Success
        /\ inv[t].vc_secret = V1Secret(<<>>, TRUE, [f \in CredentialFields |-> "Q0Ey"])
        /\ secrets[RegistrationKeyOf(inv[t].name)] = AsStored(inv[t].secret_body)

(***************************************************************************)
(* C23  Non-conflict create failure.  The step in which the create of the  *)
(* registration secret fails, with anything but the conflict (a status of  *)
(* the store other than 409, or the store not reached), ends the           *)
(* invocation with kopf.TemporaryError of delay 60; no replace was called, *)
(* and the store is as it was.                                             *)
(***************************************************************************)
CreateFailureRetryable ==
    [][\A t \in Threads :
          LET r == inv[t]
              r2 == inv'[t]
          IN  ( /\ Enrolling(t) /\ r.pc = "create" /\ r2.pc # "create"
                /\ LastCall(r2).exc # NoException
                /\ LastCall(r2).exc # ApiException(409) )
              => /\ r2.pc = "done"
                 /\ Retryable(r2)
                 /\ Ops(r2) = <<"read", "create">>
                 /\ secrets' = secrets
      ]_vars

\* How far an invocation is: every line of a handler is ahead of the lines before it.
Rank(pc) ==
    CASE pc = "idle" -> 0
      [] pc = "ensure" -> 1
      [] pc = "load" -> 2
      [] pc = "core" -> 3
      [] pc = "apps" -> 4
      [] pc = "flag" -> 5
      [] pc = "assert" -> 6
      [] pc \in {"read", "delete"} -> 7
      [] pc = "create" -> 8
      [] pc = "replace" -> 9
      [] pc = "done" -> 10

\* s is the beginning of q.
IsPrefix(s, q) == Len(s) <= Len(q) /\ \A i \in 1..Len(s) : s[i] = q[i]

\* The store calls of an enrollment invocation so far are the beginning of
\* read, create, replace: the create after a read that succeeded and a body
\* that was built, the replace after a create answered 409.
EnrollmentCallOrder(r) ==
    /\ IsPrefix(Ops(r), <<"read", "create", "replace">>)
    /\ Len(r.calls) >= 2 => r.calls[1].exc = NoException /\ BuildRaises(r.vc_secret) = "none"
    /\ Len(r.calls) >= 3 => r.calls[2].exc = ApiException(409)
    /\ r.pc \in {"ensure", "load", "core", "apps", "flag", "assert", "read"} => r.calls = <<>>
    /\ r.pc = "create" => Len(r.calls) = 1
    /\ r.pc = "replace" => Len(r.calls) = 2

\* A step of an invocation takes it ahead, and makes at most one store call.
NoInternalRetry(r, r2) ==
    (r.pc \notin {"idle", "done"} /\ r2 # r)
    => /\ Rank(r2.pc) > Rank(r.pc)
       /\ Len(r2.calls) <= Len(r.calls) + 1
       /\ IsPrefix(r.calls, r2.calls)

InitializeOnce ==
    /\ constructed <= 2
    /\ \A t \in Threads : inv[t].core_v1_api \in {0, 1}

(***************************************************************************)
(* C26  Configuration failure is fatal and leaves the client               *)
(* uninitialised.  The step in which the configuration fails to load ends  *)
(* an enrollment invocation with kopf.PermanentError; the invocation has   *)
(* made no store call and holds no client; _k8s_configured is still False  *)
(* and _core_v1_api and _apps_v1_api are still None, no client object was  *)
(* constructed.  And an invocation that finds _k8s_configured False goes   *)
(* on to load the configuration.                                           *)
(***************************************************************************)
ConfigFailureLeavesUninitialised ==
    [][\A t \in Threads :
          LET r == inv[t]
              r2 == inv'[t]
          IN  /\ (Enrolling(t) /\ r.pc = "load" /\ r2.pc = "done")
                 => /\ r2.result = ConfigFailure
                    /\ Fatal(r2)
                    /\ r2.calls = <<>>
                    /\ r2.core_v1_api = 0
                    /\ secrets' = secrets
                    /\ _k8s_configured' = FALSE
                    /\ _core_v1_api' = 0
                    /\ _apps_v1_api' = 0
                    /\ constructed' = constructed
              /\ (r.pc = "ensure" /\ r2 # r /\ ~_k8s_configured) => r2.pc = "load"
      ]_vars

\* An enrollment that ended because the configuration could not be loaded.
ConfigFailureWitness ==
    \E t \in Threads :
        /\ Done(t) /\ Enrolling(t)
        /\ inv[t].result = ConfigFailure
        /\ inv[t].calls = <<>>
        /\ ~_k8s_configured /\ _core_v1_api = 0 /\ _apps_v1_api = 0

(***************************************************************************)
(* Two vClusters of different identities: "x" in namespace ns1, and        *)
(* "luster-x" in the namespace "argocd", where its credential secret       *)
(* "vc-luster-x" lies beside the registration secret "vcluster-x" of the   *)
(* other when the environment names no other target namespace.             *)
(***************************************************************************)

IdentityWorkloads == {<<"x", "ns1">>, <<"luster-x", "argocd">>}

IdentityCredentialKeys == {CredentialKeyOf(w[1], w[2]) : w \in IdentityWorkloads}

IdentityRegistrationKeys == {RegistrationKeyOf(w[1]) : w \in IdentityWorkloads}

\* The store at the start: of each credential secret, none or a well-formed one.
InitIdentities ==
    /\ secrets \in {[k \in K |-> V1Secret(<<>>, TRUE, [f \in CredentialFields |-> "Q0Ex"])] :
                       K \in SUBSET IdentityCredentialKeys}
    /\ ARGOCD_NAMESPACE \in {ArgocdNamespaceOf(e) : e \in EnvArgocdNamespace}
    /\ _k8s_configured = FALSE
    /\ _core_v1_api = 0
    /\ _apps_v1_api = 0
    /\ constructed = 0
    /\ inv = [t \in Threads |-> Idle]
    /\ tooling = 0

\* The workload whose events a thread handles: one vCluster each.
WorkloadOf(t) == IF t = "t1" THEN <<"luster-x", "argocd">> ELSE <<"x", "ns1">>

\* The handlers of the two vClusters, each vCluster's in a thread of its
\* own, in any interleaving of their steps; the store answers every call.
NextIdentities ==
    \/ \E t \in Threads : Collect(t)
    \/ \E t \in Threads, h \in Handlers : Dispatch(t, h, WorkloadOf(t))
    \/ \E t \in Threads : EnsureCheck(t)
    \/ \E t \in Threads : EnsureLoad(t)
    \/ \E t \in Threads : EnsureCore(t)
    \/ \E t \in Threads : EnsureApps(t)
    \/ \E t \in Threads : EnsureFlag(t)
    \/ \E t \in Threads : EnsureReturn(t)
    \/ \E t \in Threads : EnrollRead(t) /\ StoreAnswers
    \/ \E t \in Threads : EnrollCreate(t) /\ StoreAnswers
    \/ \E t \in Threads : EnrollReplace(t) /\ StoreAnswers
    \/ \E t \in Threads : DeletedDelete(t) /\ StoreAnswers

SpecIdentities == InitIdentities /\ [][NextIdentities]_vars

\* The invocation made a store call at address k.
Touches(r, k) == \E i \in 1..Len(r.calls) : <<r.calls[i].namespace, r.calls[i].name>> = k

\* The workloads of the vClusters of another identity than that of `name`.
OtherIdentities(name) == {w \in IdentityWorkloads : vc_name(w[1]) # vc_name(name)}

(***************************************************************************)
(* C27  Independence across identities.  An invocation for a vCluster      *)
(* makes no store call (read, create, replace, delete) at the address of   *)
(* the credential secret or of the registration secret of a vCluster of    *)
(* another identity, and none of its steps changes either secret of the    *)
(* other, in any interleaving of the steps of the two vClusters' handlers. *)
(***************************************************************************)
IndependentIdentities ==
    /\ [](\A t \in Threads :
             inv[t].pc # "idle"
             => \A w \in OtherIdentities(inv[t].name) :
                   /\ ~Touches(inv[t], CredentialKeyOf(w[1], w[2]))
                   /\ ~Touches(inv[t], RegistrationKeyOf(w[1])))
    /\ [][\A t \in Threads :
             HandlerStep(t)
             => \A w \in OtherIdentities(inv[t].name) :
                   /\ Untouched(RegistrationKeyOf(w[1]))
                   /\ Untouched(CredentialKeyOf(w[1], w[2]))
         ]_vars

\* Both vClusters were enrolled in "argocd"; the removal of "luster-x" has
\* deleted its registration while an enrollment of "x", running in the
\* other thread, waits for its create: the registration of "x" and both
\* credential secrets are in the store.
IndependentIdentitiesWitness ==
    \E t, u \in Threads :
        /\ ARGOCD_NAMESPACE = "argocd"
        /\ Done(t) /\ Removing(t) /\ inv[t].name = "luster-x"
        /\ inv[t].result = Success
        /\ inv[u].name = "x" /\ inv[u].pc = "create"
        /\ DOMAIN secrets = {<<"argocd", "vc-luster-x">>, <<"ns1", "vc-x">>, <<"argocd", "vcluster-x">>}

(***************************************************************************)
(* C28  Distinct source workloads do not share a registration.  The        *)
(* registration secrets of two different workloads ("x" and "vcluster-x"   *)
(* of one namespace included) are different objects of the store: no step  *)
(* of the removal of one workload removes or changes the registration      *)
(* that the enrollment of another workload left in the store.              *)
(***************************************************************************)
DistinctRegistrations ==
    [][\A t \in Threads :
          (Removing(t) /\ HandlerStep(t))
          => \A w \in Workloads \ {<<inv[t].name, inv[t].namespace>>} :
                Settled(w[1], w[2]) => Untouched(RegistrationKeyOf(w[1]))
      ]_vars

(***************************************************************************)
(* C29  Lazy-init handle invariant under concurrency.  In every state of   *)
(* every interleaving of the threads that call _ensure_k8s: if             *)
(* _k8s_configured is True then _core_v1_api and _apps_v1_api are not      *)
(* None; no invocation ends with the AssertionError of lines 36-37; and    *)
(* an invocation that is past _ensure_k8s holds a client.                  *)
(***************************************************************************)
HandlesSetWhenConfigured ==
    /\ _k8s_configured => _core_v1_api # 0 /\ _apps_v1_api # 0
    /\ \A t \in Threads :
          /\ inv[t].result.value # "AssertionError"
          /\ inv[t].pc = "assert" => _core_v1_api # 0 /\ _apps_v1_api # 0
          /\ inv[t].pc \in {"read", "create", "replace", "delete"} => inv[t].core_v1_api # 0
          /\ inv[t].calls # <<>> => inv[t].core_v1_api # 0

\* Two threads initialised the client at the same time: one has set the flag
\* and got its handle, the other, which constructed its clients after it,
\* is about to set the flag again.
HandlesSetWitness ==
    \E t, u \in Threads :
        /\ t # u
        /\ _k8s_configured
        /\ constructed = 4
        /\ inv[t].pc = "read" /\ inv[t].core_v1_api # 0
        /\ inv[u].pc = "flag"

(***************************************************************************)
(* C30  Manual and automatic enrollment agree.  For every target namespace *)
(* the environment configures: the body the enroll command builds for a    *)
(* vCluster from its credential secret is the body _build_argocd_secret    *)
(* builds for it (name, namespace, labels, data), and the unenroll command *)
(* deletes at the address at which vcluster_deleted deletes:               *)
(* ARGOCD_NAMESPACE, "vcluster-"+identity.                                 *)
(***************************************************************************)
ManualAgreesWithOperator ==
    \A t \in Threads :
        LET f == inv[t]
        IN  /\ (f.handler = "enroll" /\ f.argocd_secret # NoBody)
               => f.argocd_secret = _build_argocd_secret(f.vcluster_name, f.namespace,
                                                         f.vc_secret, ARGOCD_NAMESPACE)
            /\ (f.handler = "unenroll" /\ f.calls # <<>>)
               => /\ LastCall(f).op = "delete"
                  /\ <<LastCall(f).namespace, LastCall(f).name>>
                        = <<ARGOCD_NAMESPACE, ar_secret_name(f.vcluster_name)>>

\* The invocation or command made a call `op` that the store carried out.
Carried(f, op) == \E i \in 1..Len(f.calls) : f.calls[i].op = op /\ f.calls[i].exc = NoException

(***************************************************************************)
(* C31  Forced manual re-enrollment never loses a registration.  The       *)
(* enroll command run with force on a vCluster whose registration secret   *)
(* existed (it is in the store and the command created none, or the        *)
(* command deleted it: the command is the only writer) has ended           *)
(* either without error, with the registration secret in the store and     *)
(* built from the credential secret it read, or with an error, the         *)
(* registration secret still there and neither deleted nor created by the  *)
(* command.                                                                *)
(***************************************************************************)
ForcedEnrollKeepsRegistration ==
    \A t \in Threads :
        LET f == inv[t]
            key == <<"argocd", "vcluster-" \o f.vcluster_name>>
            existed == Carried(f, "delete") \/ (key \in DOMAIN secrets /\ ~Carried(f, "create"))
        IN  (f.handler = "enroll" /\ f.force /\ f.pc = "exit" /\ existed)
            => \/ /\ f.result = ReturnedNone
                  /\ key \in DOMAIN secrets
                  /\ secrets[key] = AsStored(ManualArgocdSecret(f.vcluster_name, f.namespace, f.vc_secret))
               \/ /\ f.result # ReturnedNone
                  /\ key \in DOMAIN secrets
                  /\ ~Carried(f, "delete") /\ ~Carried(f, "create")

====
